---- MODULE Spec2Model ----
(***************************************************************************)
(* Curve point <-> byte stream serialization of the Bandersnatch curve     *)
(* (package pointserializer) together with the coordinate-recovery         *)
(* routines and the xtw point type it is used with.                        *)
(*                                                                         *)
(* The base field is scaled down from the 255-bit prime to BaseFieldSize = *)
(* 17 and d to a non-square of that field for which the curve keeps the    *)
(* shape of Bandersnatch: a = -5 and d are non-squares, d # -a, the group  *)
(* of rational points is Z/2 x Z/2 x Z/5 with the affine 2-torsion point   *)
(* A = (0,-1) and two rational points at infinity E1, E2.  Everything else *)
(* (32-byte words, bit headers in the most significant byte, endianness,   *)
(* error names) is kept as in the source.                                  *)
(***************************************************************************)
EXTENDS Integers, Sequences, FiniteSets, TLC

\* ------------------------------------------------------------------------
\* Base field (type FieldElement)
\* ------------------------------------------------------------------------
BaseFieldSize == 17
Fp == 0 .. (BaseFieldSize - 1)

Red(v) == ((v % BaseFieldSize) + BaseFieldSize) % BaseFieldSize
fieldElementZero == 0
fieldElementOne == 1
FieldElementMinusOne == Red(-1)
FeAdd(u, v) == Red(u + v)
FeSub(u, v) == Red(u - v)
FeMul(u, v) == Red(u * v)
FeSquare(u) == Red(u * u)
FeNeg(u) == Red(-u)
Multiply_by_five(u) == Red(5 * u)
\* Inv of 0 is 0 (never used on 0 by the code that is modelled)
InvTable == [u \in Fp |-> IF u = 0 THEN 0 ELSE CHOOSE w \in Fp : FeMul(u, w) = 1]
FeInv(u) == InvTable[u]
FeDivide(u, v) == FeMul(u, FeInv(v))
RootsTable == [v \in Fp |-> {w \in Fp : FeSquare(w) = v}]
Roots(v) == RootsTable[v]
Jacobi(v) == IF v = 0 THEN 0 ELSE IF Roots(v) # {} THEN 1 ELSE -1
\* Sign: +1 for 1..(p-1)/2, -1 for (p+1)/2..p-1, 0 for 0
Sign(v) == IF v = 0 THEN 0 ELSE IF v <= (BaseFieldSize - 1) \div 2 THEN 1 ELSE -1

\* SquareRoot may return either root; pick selects which one this call returns.
RootChoices == {0, 1}
SquareRoot(v, pick) ==
    LET rs == Roots(v)
        lo == CHOOSE w \in rs : \A u \in rs : w <= u
        hi == CHOOSE w \in rs : \A u \in rs : w >= u
    IN IF rs = {} THEN [ok |-> FALSE, val |-> 0]
       ELSE [ok |-> TRUE, val |-> IF pick = 0 THEN lo ELSE hi]

\* ------------------------------------------------------------------------
\* Curve parameters
\* ------------------------------------------------------------------------
CurveParameterA == -5
CurveParameterD == 3
CurveParameterA_fe == Red(CurveParameterA)
CurveParameterD_fe == Red(CurveParameterD)
\* a square root of d/a; the choice fixes which point at infinity is E1
squareRootDByA == 9
squareRootDbyA_fe == Red(squareRootDByA)

\* ------------------------------------------------------------------------
\* Errors and trust levels
\* ------------------------------------------------------------------------
nil == "nil"
TrustedInput == TRUE
UntrustedInput == FALSE
TrustLevels == {TrustedInput, UntrustedInput}

\* ------------------------------------------------------------------------
\* Point_axtw_full / Point_axtw_subgroup values (x, y, t) and their checks
\* ------------------------------------------------------------------------
Axtw(x, y, t) == [x |-> x, y |-> y, t |-> t]
NaP_axtw == Axtw(0, 0, 0)
NeutralElement_axtw_full == Axtw(fieldElementZero, fieldElementOne, fieldElementZero)
AffineOrderTwoPoint_axtw == Axtw(fieldElementZero, FieldElementMinusOne, fieldElementZero)

IsNaP(p) == p.x = 0 /\ p.y = 0

\* a x^2 + y^2 = 1 + d t^2 with t = x y
isPointOnCurve_axtw(p) ==
    /\ p.t = FeMul(p.x, p.y)
    /\ FeAdd(FeMul(CurveParameterA_fe, FeSquare(p.x)), FeSquare(p.y))
         = FeAdd(fieldElementOne, FeMul(CurveParameterD_fe, FeSquare(p.t)))

\* 1 - a x^2 is a square: the point is in the subgroup up to A
legendreCheckA_affineX(x) ==
    Jacobi(FeAdd(Multiply_by_five(FeSquare(x)), fieldElementOne)) >= 0
legendreCheckA_projectiveXZ(x, z) ==
    Jacobi(FeMul(FeAdd(FeSquare(z), Multiply_by_five(FeSquare(x))), FeSquare(z))) >= 0
\* the quadratic character that is trivial on the subgroup and on E1 and
\* non-trivial on A
legendreCheckE1_projectiveYZ(y, z) ==
    Jacobi(FeMul(FeSub(z, y), FeSub(z, FeMul(squareRootDbyA_fe, y)))) >= 0
legendreCheckE1_affineY(y) == legendreCheckE1_projectiveYZ(y, fieldElementOne)

IsInSubgroup_axtw_full(p) == legendreCheckA_affineX(p.x) /\ legendreCheckE1_affineY(p.y)

\* Point_axtw_subgroup.SetFromSubgroupPoint(input, trustLevel): for trusted
\* input only NaPs are refused; the receiver is left alone on failure.
SetFromSubgroupPoint(input, trustLevel) ==
    IF IsNaP(input) THEN [ok |-> FALSE, point |-> NaP_axtw]
    ELSE IF (~trustLevel) /\ ~IsInSubgroup_axtw_full(input) THEN [ok |-> FALSE, point |-> NaP_axtw]
    ELSE [ok |-> TRUE, point |-> input]

\* ------------------------------------------------------------------------
\* Coordinate recovery
\* ------------------------------------------------------------------------
\* y is recovered without the Legendre check on x
recoverYFromXAffine_Unchecked(x, legendreCheckX, pick) ==
    LET xx    == FeSquare(x)
        denom == FeSub(fieldElementOne, FeMul(xx, CurveParameterD_fe))
        num   == FeAdd(Multiply_by_five(xx), fieldElementOne)
        sr    == SquareRoot(FeDivide(num, denom), pick)
    IN IF ~sr.ok THEN [y |-> 0, err |-> "ErrXNotOnCurve"]
                 ELSE [y |-> sr.val, err |-> nil]

recoverYFromXAffine(x, legendreCheckX, pick) ==
    LET xx    == FeSquare(x)
        denom == FeSub(fieldElementOne, FeMul(xx, CurveParameterD_fe))
        num   == FeAdd(Multiply_by_five(xx), fieldElementOne)
        sr    == SquareRoot(FeDivide(num, denom), pick)
    IN IF legendreCheckX /\ Jacobi(num) < 0
       THEN IF sr.ok THEN [y |-> sr.val, err |-> "ErrXNotInSubgroup"]
                     ELSE [y |-> 0, err |-> "ErrXNotOnCurve"]
       ELSE IF ~sr.ok THEN [y |-> 0, err |-> "ErrXNotOnCurve"]
                      ELSE [y |-> sr.val, err |-> nil]

\* x is computed without looking at the denominator
recoverXFromYAffine_NoDenominatorCheck(y, pick) ==
    LET yy    == FeSquare(y)
        denom == FeSub(FeMul(yy, CurveParameterD_fe), CurveParameterA_fe)
        num   == FeSub(yy, fieldElementOne)
        sr    == SquareRoot(FeDivide(num, denom), pick)
    IN IF ~sr.ok THEN [x |-> 0, err |-> "ErrYNotOnCurve"]
       ELSE [x |-> sr.val, err |-> nil]

recoverXFromYAffine(y, pick) ==
    LET yy    == FeSquare(y)
        denom == FeSub(FeMul(yy, CurveParameterD_fe), CurveParameterA_fe)
        num   == FeSub(yy, fieldElementOne)
        sr    == SquareRoot(FeDivide(num, denom), pick)
    IN IF denom = 0 THEN [x |-> 0, err |-> "ErrYNotOnCurve"]
       ELSE IF ~sr.ok THEN [x |-> 0, err |-> "ErrYNotOnCurve"]
       ELSE [x |-> sr.val, err |-> nil]

\* ------------------------------------------------------------------------
\* CurvePointFrom* constructors.  A result is [point, err, panic]; when
\* panic is TRUE the call did not return.
\* ------------------------------------------------------------------------
Ret(point, err) == [point |-> point, err |-> err, panic |-> FALSE]
Panic(err) == [point |-> NaP_axtw, err |-> err, panic |-> TRUE]

\* the point is returned as assigned, also when it is not on the curve
CurvePointFromXYAffine_full_KeepsPoint(x, y, trustLevel) ==
    LET point == Axtw(x, y, FeMul(x, y))
    IN IF ~trustLevel
       THEN IF IsNaP(point)
            THEN IF x = 0 /\ y = 0 THEN Ret(NaP_axtw, "ErrCannotDeserializeXYAllZero")
                                   ELSE Ret(NaP_axtw, "ErrCannotDeserializeNaP")
            ELSE IF ~isPointOnCurve_axtw(point) THEN Ret(point, "ErrNotOnCurve")
            ELSE Ret(point, nil)
       ELSE Ret(point, nil)

CurvePointFromXYAffine_full(x, y, trustLevel) ==
    LET point == Axtw(x, y, FeMul(x, y))
    IN IF ~trustLevel
       THEN IF IsNaP(point)
            THEN IF x = 0 /\ y = 0 THEN Ret(NaP_axtw, "ErrCannotDeserializeXYAllZero")
                                   ELSE Ret(NaP_axtw, "ErrCannotDeserializeNaP")
            ELSE IF ~isPointOnCurve_axtw(point) THEN Ret(NaP_axtw, "ErrNotOnCurve")
            ELSE Ret(point, nil)
       ELSE Ret(point, nil)

CurvePointFromXYAffine_subgroup(x, y, trustLevel) ==
    LET full == CurvePointFromXYAffine_full(x, y, trustLevel)
        set  == SetFromSubgroupPoint(full.point, trustLevel)
    IN IF full.err # nil THEN Ret(NaP_axtw, full.err)
       ELSE IF ~set.ok THEN Ret(set.point, "ErrNotInSubgroup")
       ELSE Ret(set.point, nil)

\* trusted input is taken at its word even when no y exists for x
CurvePointFromXAndSignY_full_NoPanic(x, signY, trustLevel, pick) ==
    LET rec == recoverYFromXAffine(x, FALSE, pick)
        y   == IF Sign(rec.y) # signY THEN FeNeg(rec.y) ELSE rec.y
    IN IF ~(signY = 1 \/ signY = -1)
       THEN IF trustLevel THEN Panic("ErrInvalidSign") ELSE Ret(NaP_axtw, "ErrInvalidSign")
       ELSE IF rec.err # nil /\ ~trustLevel
       THEN Ret(NaP_axtw, rec.err)
       ELSE Ret(Axtw(x, y, FeMul(x, y)), nil)

CurvePointFromXAndSignY_full(x, signY, trustLevel, pick) ==
    LET rec == recoverYFromXAffine(x, FALSE, pick)
        y   == IF Sign(rec.y) # signY THEN FeNeg(rec.y) ELSE rec.y
    IN IF ~(signY = 1 \/ signY = -1)
       THEN IF trustLevel THEN Panic("ErrInvalidSign") ELSE Ret(NaP_axtw, "ErrInvalidSign")
       ELSE IF rec.err # nil
       THEN IF trustLevel THEN Panic(rec.err) ELSE Ret(NaP_axtw, rec.err)
       ELSE Ret(Axtw(x, y, FeMul(x, y)), nil)

CurvePointFromXAndSignY_subgroup(x, signY, trustLevel, pick) ==
    LET full == CurvePointFromXAndSignY_full(x, signY, trustLevel, pick)
        set  == SetFromSubgroupPoint(full.point, trustLevel)
        rec  == recoverYFromXAffine(x, TRUE, pick)
        y    == IF Sign(rec.y) # signY THEN FeNeg(rec.y) ELSE rec.y
    IN IF ~(signY = 1 \/ signY = -1)
       THEN IF trustLevel THEN Panic("ErrInvalidSign") ELSE Ret(NaP_axtw, "ErrInvalidSign")
       ELSE IF trustLevel
       THEN IF full.panic THEN full
            ELSE IF full.err # nil THEN Panic(full.err)
            ELSE IF ~set.ok THEN Panic("unexpected error during trusted construction")
            ELSE Ret(set.point, nil)
       ELSE IF rec.err # nil THEN Ret(NaP_axtw, rec.err)
            ELSE IF ~legendreCheckE1_affineY(y) THEN Ret(NaP_axtw, "ErrNotInSubgroup")
            ELSE Ret(Axtw(x, y, FeMul(x, y)), nil)

\* a sign outside {-1, 0, +1} is not refused
CurvePointFromYAndSignX_full_SignUnchecked(y, signX, trustLevel, pick) ==
    LET rec == recoverXFromYAffine(y, pick)
        x   == IF Sign(rec.x) # signX THEN FeNeg(rec.x) ELSE rec.x
    IN IF signX = 0
       THEN IF y = fieldElementOne THEN Ret(NeutralElement_axtw_full, nil)
            ELSE IF y = FieldElementMinusOne THEN Ret(AffineOrderTwoPoint_axtw, nil)
            ELSE Ret(NaP_axtw, "ErrInvalidZeroSignX")
       ELSE IF rec.err # nil
       THEN IF trustLevel THEN Panic(rec.err) ELSE Ret(NaP_axtw, rec.err)
       ELSE Ret(Axtw(x, y, FeMul(x, y)), nil)

CurvePointFromYAndSignX_full(y, signX, trustLevel, pick) ==
    LET rec == recoverXFromYAffine(y, pick)
        x   == IF Sign(rec.x) # signX THEN FeNeg(rec.x) ELSE rec.x
    IN IF signX = 0
       THEN IF y = fieldElementOne THEN Ret(NeutralElement_axtw_full, nil)
            ELSE IF y = FieldElementMinusOne THEN Ret(AffineOrderTwoPoint_axtw, nil)
            ELSE Ret(NaP_axtw, "ErrInvalidZeroSignX")
       ELSE IF ~(signX = 1 \/ signX = -1) THEN Ret(NaP_axtw, "ErrInvalidSign")
       ELSE IF rec.err # nil
       THEN IF trustLevel THEN Panic(rec.err) ELSE Ret(NaP_axtw, rec.err)
       ELSE Ret(Axtw(x, y, FeMul(x, y)), nil)

\* the point of the full-curve constructor is taken as it is
CurvePointFromYAndSignX_subgroup_AsFull(y, signX, trustLevel, pick) ==
    CurvePointFromYAndSignX_full(y, signX, trustLevel, pick)

CurvePointFromYAndSignX_subgroup(y, signX, trustLevel, pick) ==
    LET full == CurvePointFromYAndSignX_full(y, signX, trustLevel, pick)
        set  == SetFromSubgroupPoint(full.point, trustLevel)
    IN IF full.panic THEN full
       ELSE IF full.err # nil THEN Ret(NaP_axtw, full.err)
       ELSE IF ~set.ok THEN Ret(NaP_axtw, "ErrNotInSubgroup")
       ELSE Ret(set.point, nil)

\* the root is used as computed when the input is trusted
CurvePointFromXTimesSignY_subgroup_AnyRoot(xSignY, trustLevel, pick) ==
    LET rec == recoverYFromXAffine(xSignY, ~trustLevel, pick)
        y   == IF Sign(rec.y) < 0 /\ ~trustLevel THEN FeNeg(rec.y) ELSE rec.y
    IN IF rec.err # nil THEN Ret(NaP_axtw, rec.err)
       ELSE Ret(Axtw(xSignY, y, FeMul(xSignY, y)), nil)

CurvePointFromXTimesSignY_subgroup(xSignY, trustLevel, pick) ==
    LET rec == recoverYFromXAffine(xSignY, ~trustLevel, pick)
        y   == IF Sign(rec.y) < 0 THEN FeNeg(rec.y) ELSE rec.y
    IN IF rec.err # nil THEN Ret(NaP_axtw, rec.err)
       ELSE Ret(Axtw(xSignY, y, FeMul(xSignY, y)), nil)

\* the subgroup error is reported before the curve equation is looked at
CurvePointFromXYTimesSignY_subgroup_SubgroupFirst(xSignY, ySignY, trustlevel) ==
    LET point  == Axtw(xSignY, ySignY, FeMul(xSignY, ySignY))
        acc1   == FeAdd(Multiply_by_five(FeSquare(xSignY)), fieldElementOne)
        acc2   == FeAdd(FeSub(acc1, FeSquare(point.y)),
                        FeMul(FeSquare(point.t), CurveParameterD_fe))
        err2   == IF Jacobi(acc1) < 0 THEN "ErrNotInSubgroup"
                  ELSE IF acc2 # 0 THEN "ErrNotOnCurve" ELSE nil
    IN IF (~trustlevel) /\ Sign(ySignY) <= 0 THEN Ret(NaP_axtw, "ErrWrongSignY")
       ELSE IF ~trustlevel
       THEN IF err2 # nil THEN Ret(NaP_axtw, err2) ELSE Ret(point, nil)
       ELSE Ret(point, nil)

CurvePointFromXYTimesSignY_subgroup(xSignY, ySignY, trustlevel) ==
    LET point  == Axtw(xSignY, ySignY, FeMul(xSignY, ySignY))
        acc1   == FeAdd(Multiply_by_five(FeSquare(xSignY)), fieldElementOne)
        err1   == IF Jacobi(acc1) < 0 THEN "ErrNotInSubgroup" ELSE nil
        acc2   == FeAdd(FeSub(acc1, FeSquare(point.y)),
                        FeMul(FeSquare(point.t), CurveParameterD_fe))
        err2   == IF acc2 # 0 THEN "ErrNotOnCurve" ELSE err1
    IN IF (~trustlevel) /\ Sign(ySignY) <= 0 THEN Ret(NaP_axtw, "ErrWrongSignY")
       ELSE IF ~trustlevel
       THEN IF err2 # nil THEN Ret(NaP_axtw, err2) ELSE Ret(point, nil)
       ELSE Ret(point, nil)

\* ------------------------------------------------------------------------
\* Point_xtw_full / Point_xtw_subgroup: extended twisted Edwards coordinates
\* (x : y : t : z).  sub tells the type: TRUE for Point_xtw_subgroup, which
\* stores a subgroup element modulo A as either of (x, y), (-x, -y).
\* ------------------------------------------------------------------------
Xtw(sub, x, y, t, z) == [sub |-> sub, x |-> x, y |-> y, t |-> t, z |-> z]

CanOnlyRepresentSubgroup(p) == p.sub

\* Result of a method that may panic: [p, panic]
normalizeAffineZ(p) ==
    LET zInverse == FeInv(p.z)
    IN IF IsNaP(p) THEN [p |-> Xtw(p.sub, 0, 0, 0, fieldElementOne), panic |-> FALSE]
       ELSE IF p.z = fieldElementOne THEN [p |-> p, panic |-> FALSE]
       ELSE IF p.z = 0 THEN [p |-> p, panic |-> TRUE]
       ELSE [p |-> Xtw(p.sub, FeMul(p.x, zInverse), FeMul(p.y, zInverse),
                       FeMul(p.t, zInverse), fieldElementOne),
             panic |-> FALSE]

flipDecaf(p) == [p EXCEPT !.x = FeNeg(p.x), !.y = FeNeg(p.y)]

normalizeSubgroup(p) ==
    IF ~legendreCheckE1_projectiveYZ(p.y, p.z) THEN flipDecaf(p) ELSE p

\* XY_affine, X_decaf_affine and Y_decaf_affine rewrite the receiver; the
\* coordinates returned are those of the rewritten point.
XY_affine(p) ==
    LET n == normalizeAffineZ(p)
    IN IF n.panic THEN n
       ELSE IF p.sub THEN [p |-> normalizeSubgroup(n.p), panic |-> FALSE]
       ELSE n

XY_decaf_affine(p) == normalizeAffineZ(p)

IsAtInfinity(p) ==
    IF IsNaP(p) THEN FALSE
    ELSE IF p.sub THEN FALSE
    ELSE p.z = 0

\* A Point_xtw_subgroup is in the subgroup by its type.
IsInSubgroup(p) ==
    IF p.sub THEN TRUE
    ELSE legendreCheckA_projectiveXZ(p.x, p.z) /\ legendreCheckE1_projectiveYZ(p.y, p.z)

\* the more common choice X/Z
MapToFieldElement_XOverZ(input) ==
    IF IsAtInfinity(input) THEN [val |-> 0, panic |-> TRUE]
    ELSE IF IsNaP(input) THEN [val |-> 0, panic |-> TRUE]
    ELSE [val |-> FeMul(FeInv(input.z), input.x), panic |-> FALSE]

\* X/Y; the result is [val, panic]
MapToFieldElement(input) ==
    IF IsAtInfinity(input) THEN [val |-> 0, panic |-> TRUE]
    ELSE IF IsNaP(input) THEN [val |-> 0, panic |-> TRUE]
    ELSE [val |-> FeMul(FeInv(input.y), input.x), panic |-> FALSE]

normalizeSubgroup_axtw(q) ==
    IF ~legendreCheckE1_affineY(q.y) THEN [q EXCEPT !.x = FeNeg(q.x), !.y = FeNeg(q.y)] ELSE q

\* p.SetFrom(&P) for P of type Point_axtw_subgroup (fromSubgroup) or
\* Point_axtw_full.
SetFrom(p, q, fromSubgroup) ==
    IF p.sub
    THEN \* case *Point_axtw_subgroup: x, y and t are assigned, z is not
         [p EXCEPT !.x = q.x, !.y = q.y, !.t = q.t]
    ELSE IF fromSubgroup
    THEN LET n == normalizeSubgroup_axtw(q)
         IN Xtw(FALSE, n.x, n.y, n.t, fieldElementOne)
    ELSE Xtw(FALSE, q.x, q.y, q.t, fieldElementOne)

\* Comparisons.  The result of a comparison is [ret, nap, panic, p] with p
\* the receiver after the call; nap records a call of napEncountered.
Compared(ret, p) == [ret |-> ret, nap |-> FALSE, panic |-> FALSE, p |-> p]
napEncountered(p) == [ret |-> FALSE, nap |-> TRUE, panic |-> FALSE, p |-> p]

\* equality of projective (tt) or projective and affine (ta) coordinates,
\* exactly or up to addition of A
isEqual_exact_tt(p, other) ==
    /\ FeMul(p.x, other.z) = FeMul(other.x, p.z)
    /\ FeMul(p.y, other.z) = FeMul(other.y, p.z)
isEqual_exact_ta(p, other) ==
    /\ p.x = FeMul(other.x, p.z)
    /\ p.y = FeMul(other.y, p.z)
isEqual_moduloA_tt(p, other) == FeMul(p.x, other.y) = FeMul(other.x, p.y)
isEqual_moduloA_ta(p, other) == FeMul(p.x, other.y) = FeMul(other.x, p.y)

PointTypes == {"Point_xtw_subgroup", "Point_xtw_full", "Point_axtw_subgroup", "Point_axtw_full"}

\* the receiver is compared with a full-curve point as it stands
IsEqual_AsStored(p, other, otherType) ==
    IF IsNaP(p) \/ IsNaP(other) THEN napEncountered(p)
    ELSE CASE otherType = "Point_xtw_subgroup" -> Compared(isEqual_moduloA_tt(p, other), p)
           [] otherType = "Point_xtw_full" -> Compared(isEqual_exact_tt(p, other), p)
           [] otherType = "Point_axtw_subgroup" -> Compared(isEqual_moduloA_ta(p, other), p)
           [] otherType = "Point_axtw_full" -> Compared(isEqual_exact_ta(p, other), p)

\* Point_xtw_subgroup.IsEqual(other)
IsEqual(p, other, otherType) ==
    CASE otherType = "Point_xtw_subgroup" ->
            IF IsNaP(p) \/ IsNaP(other) THEN napEncountered(p)
            ELSE Compared(isEqual_moduloA_tt(p, other), p)
      [] otherType = "Point_xtw_full" ->
            LET n == normalizeSubgroup(p)
            IN IF IsNaP(n) \/ IsNaP(other) THEN napEncountered(n)
               ELSE Compared(isEqual_exact_tt(n, other), n)
      [] otherType = "Point_axtw_subgroup" ->
            IF IsNaP(p) \/ IsNaP(other) THEN napEncountered(p)
            ELSE Compared(isEqual_moduloA_ta(p, other), p)
      [] otherType = "Point_axtw_full" ->
            LET n == normalizeSubgroup(p)
            IN IF IsNaP(n) \/ IsNaP(other) THEN napEncountered(n)
               ELSE Compared(isEqual_exact_ta(n, other), n)

\* Point_xtw_subgroup.IsNeutralElement() and Point_xtw_full.IsNeutralElement()
IsNeutralElement(p) ==
    IF p.sub
    THEN IF p.x = 0
         THEN IF p.y = 0 THEN napEncountered(p) ELSE Compared(TRUE, p)
         ELSE IF p.t # 0 THEN [ret |-> FALSE, nap |-> FALSE, panic |-> TRUE, p |-> p]
         ELSE Compared(FALSE, p)
    ELSE IF p.x # 0 THEN Compared(FALSE, p)
         ELSE IF IsNaP(p) THEN napEncountered(p)
         ELSE IF p.t # 0 THEN [ret |-> FALSE, nap |-> FALSE, panic |-> TRUE, p |-> p]
         ELSE Compared(p.y = p.z, p)

\* ------------------------------------------------------------------------
\* Field codec: one field element is one 32-byte word.  Seen as a
\* big-endian number the word holds the bit header (and for the
\* compressed-bit serializers the sign bit) in its most significant bits
\* and the canonical representative below.
\* ------------------------------------------------------------------------
FeLen == 32
ByteBits == 8
LittleEndian == "little"
BigEndian == "big"
Endiannesses == {LittleEndian, BigEndian}

BitHeader(bits, len) == [bits |-> bits, len |-> len]
NoHeader == BitHeader(0, 0)
\* a short header of one zero bit
bitHeaderBanderwagonX_ZeroBit == BitHeader(0, 1)
bitHeaderBanderwagonX == BitHeader(1, 1)
bitHeaderBanderwagonY == BitHeader(0, 2)

Reverse(sq) == [i \in 1 .. Len(sq) |-> sq[Len(sq) + 1 - i]]
Zeros(n) == [i \in 1 .. n |-> 0]

\* the big-endian word with the given most significant byte, the given
\* byte in the middle position 2 and the given least significant byte
BEWord(top, mid, low) == <<top, mid>> \o Zeros(FeLen - 3) \o <<low>>
OnWire(be, endianness) == IF endianness = LittleEndian THEN Reverse(be) ELSE be

SerializeWithPrefix(fe, hdr, endianness) ==
    OnWire(BEWord(hdr.bits * 2 ^ (ByteBits - hdr.len), 0, fe), endianness)

\* the header bits, the value below them and whether that value is >= p
DecodeWord(word, len, endianness) ==
    LET be   == OnWire(word, endianness)
        unit == 2 ^ (ByteBits - len)
    IN [bits |-> be[1] \div unit,
        big  |-> \/ be[1] % unit # 0
                 \/ \E i \in 2 .. (FeLen - 1) : be[i] # 0
                 \/ be[FeLen] >= BaseFieldSize,
        fe   |-> be[FeLen]]

\* [err, fe] from a full word
DeserializeWithPrefix(word, hdr, endianness) ==
    LET dw == DecodeWord(word, hdr.len, endianness)
    IN IF dw.bits # hdr.bits THEN [err |-> "ErrHeaderMismatch", fe |-> 0]
       ELSE IF dw.big THEN [err |-> "ErrValueExceedsFieldSize", fe |-> 0]
       ELSE [err |-> nil, fe |-> dw.fe]

\* [bytesRead, err, word, rest]: reading one word from the stream
ReadWord(stream) ==
    IF Len(stream) >= FeLen
    THEN [bytesRead |-> FeLen, err |-> nil,
          word |-> SubSeq(stream, 1, FeLen), rest |-> SubSeq(stream, FeLen + 1, Len(stream))]
    ELSE [bytesRead |-> Len(stream),
          err |-> IF Len(stream) = 0 THEN "EOF" ELSE "ErrUnexpectedEOF",
          word |-> <<>>, rest |-> <<>>]

\* valuesSerializerHeaderFe
SerializeValues_HeaderFe(s, fe) == SerializeWithPrefix(fe, s.bitHeader, s.endianness)

DeserializeValues_HeaderFe(s, stream) ==
    LET r == ReadWord(stream)
        d == DeserializeWithPrefix(r.word, s.bitHeader, s.endianness)
    IN IF r.err # nil
       THEN [bytesRead |-> r.bytesRead, err |-> r.err, fe |-> 0, rest |-> r.rest]
       ELSE [bytesRead |-> r.bytesRead, err |-> d.err, fe |-> d.fe, rest |-> r.rest]

\* valuesSerializerHeaderFeHeaderFe
SerializeValues_HeaderFeHeaderFe(s, fe1, fe2) ==
    SerializeWithPrefix(fe1, s.bitHeader, s.endianness)
        \o SerializeWithPrefix(fe2, s.bitHeader2, s.endianness)

DeserializeValues_HeaderFeHeaderFe(s, stream) ==
    LET r1 == ReadWord(stream)
        d1 == DeserializeWithPrefix(r1.word, s.bitHeader, s.endianness)
        r2 == ReadWord(r1.rest)
        d2 == DeserializeWithPrefix(r2.word, s.bitHeader2, s.endianness)
    IN IF r1.err # nil
       THEN [bytesRead |-> r1.bytesRead, err |-> r1.err, fe1 |-> 0, fe2 |-> 0, rest |-> r1.rest]
       ELSE IF d1.err # nil
       THEN [bytesRead |-> r1.bytesRead, err |-> d1.err, fe1 |-> 0, fe2 |-> 0, rest |-> r1.rest]
       ELSE IF r2.err # nil
       THEN [bytesRead |-> r1.bytesRead + r2.bytesRead,
             err |-> IF r2.err = "EOF" THEN "ErrUnexpectedEOF" ELSE r2.err,
             fe1 |-> 0, fe2 |-> 0, rest |-> r2.rest]
       ELSE [bytesRead |-> r1.bytesRead + r2.bytesRead, err |-> d2.err,
             fe1 |-> IF d2.err = nil THEN d1.fe ELSE 0, fe2 |-> d2.fe, rest |-> r2.rest]

\* valuesSerializerFeCompressedBit: the bit is the most significant bit
SerializeValues_FeCompressedBit(s, fe, bit) ==
    SerializeWithPrefix(fe, BitHeader(IF bit THEN 1 ELSE 0, 1), s.endianness)

DeserializeValues_FeCompressedBit(s, stream) ==
    LET r == ReadWord(stream)
        d == DecodeWord(r.word, 1, s.endianness)
    IN IF r.err # nil
       THEN [bytesRead |-> r.bytesRead, err |-> r.err, fe |-> 0, bit |-> FALSE, rest |-> r.rest]
       ELSE IF d.big
       THEN [bytesRead |-> r.bytesRead, err |-> "ErrValueExceedsFieldSize", fe |-> 0,
             bit |-> FALSE, rest |-> r.rest]
       ELSE [bytesRead |-> r.bytesRead, err |-> nil, fe |-> d.fe, bit |-> (d.bits = 1),
             rest |-> r.rest]

\* ------------------------------------------------------------------------
\* The five basic serializers
\* ------------------------------------------------------------------------
KindXY == "pointSerializerXY"
KindXAndSignY == "pointSerializerXAndSignY"
KindYAndSignX == "pointSerializerYAndSignX"
KindXTimesSignY == "pointSerializerXTimesSignY"
KindYXTimesSignY == "pointSerializerYXTimesSignY"

Serializer(kind, endianness, subgroupOnly, h1, h2) ==
    [kind |-> kind, endianness |-> endianness, subgroupOnly |-> subgroupOnly,
     bitHeader |-> h1, bitHeader2 |-> h2]

\* subgroupRestriction wraps a bool; subgroupOnly is always true
IsSubgroupOnly(s) ==
    IF s.kind \in {KindXTimesSignY, KindYXTimesSignY} THEN TRUE ELSE s.subgroupOnly

\* YX*SignY counted as one word
OutputLength_OneWord(s) == IF s.kind = KindXY THEN 64 ELSE 32

OutputLength(s) ==
    CASE s.kind = KindXY -> 64
      [] s.kind = KindXAndSignY -> 32
      [] s.kind = KindYAndSignX -> 32
      [] s.kind = KindXTimesSignY -> 32
      [] s.kind = KindYXTimesSignY -> 64

\* the subgroup is never looked at
checkPointSerializability_NoSubgroup(point, performSubgroupCheck) ==
    IF IsNaP(point) THEN "ErrCannotSerializeNaP"
    ELSE IF IsAtInfinity(point) THEN "ErrCannotSerializePointAtInfinity"
    ELSE nil

checkPointSerializability(point, performSubgroupCheck) ==
    IF IsNaP(point) THEN "ErrCannotSerializeNaP"
    ELSE IF IsAtInfinity(point) THEN "ErrCannotSerializePointAtInfinity"
    ELSE IF performSubgroupCheck /\ ~IsInSubgroup(point)
    THEN "ErrWillNotSerializePointOutsideSubgroup"
    ELSE nil

NoErrorData == [present |-> FALSE, Partial |-> FALSE, Bytes |-> 0]
ErrorData(partial, bytes) == [present |-> TRUE, Partial |-> partial, Bytes |-> bytes]

\* (WriteErrorData{PartialWrite: false, BytesWritten: 0})
addErrorDataNoWrite(err) ==
    IF err = nil THEN NoErrorData ELSE ErrorData(FALSE, 0)

\* Result of SerializeCurvePoint: the bytes handed to the writer, the
\* returned count and error, and the input point as the call leaves it.
SerResult(bytesWritten, err, errData, panic, out, point) ==
    [bytesWritten |-> bytesWritten, err |-> err, errData |-> errData,
     panic |-> panic, out |-> out, point |-> point]

\* the input point is left with the coordinates divided by z, and its old z
SerializeCurvePoint_XY_KeepsZ(s, point) ==
    LET errPlain == checkPointSerializability(point, IsSubgroupOnly(s))
        a   == XY_affine(point)
        out == SerializeValues_HeaderFeHeaderFe(s, a.p.x, a.p.y)
    IN IF errPlain # nil
       THEN SerResult(0, errPlain, addErrorDataNoWrite(errPlain), FALSE, <<>>, point)
       ELSE IF a.panic THEN SerResult(0, nil, NoErrorData, TRUE, <<>>, a.p)
       ELSE SerResult(Len(out), nil, NoErrorData, FALSE, out, [a.p EXCEPT !.z = point.z])

SerializeCurvePoint_XY(s, point) ==
    LET errPlain == checkPointSerializability(point, IsSubgroupOnly(s))
        a   == XY_affine(point)
        out == SerializeValues_HeaderFeHeaderFe(s, a.p.x, a.p.y)
    IN IF errPlain # nil
       THEN SerResult(0, errPlain, addErrorDataNoWrite(errPlain), FALSE, <<>>, point)
       ELSE IF a.panic THEN SerResult(0, nil, NoErrorData, TRUE, <<>>, a.p)
       ELSE SerResult(Len(out), nil, NoErrorData, FALSE, out, a.p)

SerializeCurvePoint_XAndSignY(s, point) ==
    LET errPlain == checkPointSerializability(point, IsSubgroupOnly(s))
        a   == XY_affine(point)
        SignY == Sign(a.p.y) < 0
        out == SerializeValues_FeCompressedBit(s, a.p.x, SignY)
    IN IF errPlain # nil
       THEN SerResult(0, errPlain, addErrorDataNoWrite(errPlain), FALSE, <<>>, point)
       ELSE IF a.panic THEN SerResult(0, nil, NoErrorData, TRUE, <<>>, a.p)
       ELSE SerResult(Len(out), nil, NoErrorData, FALSE, out, a.p)

SerializeCurvePoint_YAndSignX(s, point) ==
    LET errPlain == checkPointSerializability(point, IsSubgroupOnly(s))
        a   == XY_affine(point)
        SignX == Sign(a.p.x) < 0
        out == SerializeValues_FeCompressedBit(s, a.p.y, SignX)
    IN IF errPlain # nil
       THEN SerResult(0, errPlain, addErrorDataNoWrite(errPlain), FALSE, <<>>, point)
       ELSE IF a.panic THEN SerResult(0, nil, NoErrorData, TRUE, <<>>, a.p)
       ELSE SerResult(Len(out), nil, NoErrorData, FALSE, out, a.p)

\* X is written as it is held
SerializeCurvePoint_XTimesSignY_NoSign(s, point) ==
    LET errPlain == checkPointSerializability(point, TRUE)
        a   == XY_decaf_affine(point)
        out == SerializeValues_HeaderFe(s, a.p.x)
    IN IF errPlain # nil
       THEN SerResult(0, errPlain, addErrorDataNoWrite(errPlain), FALSE, <<>>, point)
       ELSE IF a.panic THEN SerResult(0, nil, NoErrorData, TRUE, <<>>, a.p)
       ELSE SerResult(Len(out), nil, NoErrorData, FALSE, out, a.p)

SerializeCurvePoint_XTimesSignY(s, point) ==
    LET errPlain == checkPointSerializability(point, TRUE)
        a   == XY_decaf_affine(point)
        X   == IF Sign(a.p.y) < 0 THEN FeNeg(a.p.x) ELSE a.p.x
        out == SerializeValues_HeaderFe(s, X)
    IN IF errPlain # nil
       THEN SerResult(0, errPlain, addErrorDataNoWrite(errPlain), FALSE, <<>>, point)
       ELSE IF a.panic THEN SerResult(0, nil, NoErrorData, TRUE, <<>>, a.p)
       ELSE SerResult(Len(out), nil, NoErrorData, FALSE, out, a.p)

SerializeCurvePoint_YXTimesSignY(s, point) ==
    LET errPlain == checkPointSerializability(point, TRUE)
        a   == XY_decaf_affine(point)
        neg == Sign(a.p.y) < 0
        X   == IF neg THEN FeNeg(a.p.x) ELSE a.p.x
        Y   == IF neg THEN FeNeg(a.p.y) ELSE a.p.y
        out == SerializeValues_HeaderFeHeaderFe(s, Y, X)
    IN IF errPlain # nil
       THEN SerResult(0, errPlain, addErrorDataNoWrite(errPlain), FALSE, <<>>, point)
       ELSE IF a.panic THEN SerResult(0, nil, NoErrorData, TRUE, <<>>, a.p)
       ELSE SerResult(Len(out), nil, NoErrorData, FALSE, out, a.p)

SerializeCurvePoint(s, point) ==
    CASE s.kind = KindXY -> SerializeCurvePoint_XY(s, point)
      [] s.kind = KindXAndSignY -> SerializeCurvePoint_XAndSignY(s, point)
      [] s.kind = KindYAndSignX -> SerializeCurvePoint_YAndSignX(s, point)
      [] s.kind = KindXTimesSignY -> SerializeCurvePoint_XTimesSignY(s, point)
      [] s.kind = KindYXTimesSignY -> SerializeCurvePoint_YXTimesSignY(s, point)

\* Result of DeserializeCurvePoint: the returned count and error, whether
\* the call panicked instead of returning, the output point as the call
\* leaves it and what is left in the input stream.
DesResult(bytesRead, err, errData, panic, point, rest) ==
    [bytesRead |-> bytesRead, err |-> err, errData |-> errData,
     panic |-> panic, point |-> point, rest |-> rest]

\* point.SetFrom(&P) before the error of the constructor is looked at
FinishDeserialize_SetFromFirst(s, v, c, fromSubgroup, trustLevel, point) ==
    IF c.panic
    THEN DesResult(v.bytesRead, c.err, NoErrorData, TRUE, point, v.rest)
    ELSE IF c.err # nil
    THEN DesResult(v.bytesRead, c.err, ErrorData(FALSE, OutputLength(s)), trustLevel,
                   SetFrom(point, c.point, fromSubgroup), v.rest)
    ELSE DesResult(v.bytesRead, nil, NoErrorData, FALSE,
                   SetFrom(point, c.point, fromSubgroup), v.rest)

\* The common tail of the five DeserializeCurvePoint methods: c is the
\* result of the CurvePointFrom* call, fromSubgroup the type of the
\* temporary P.
FinishDeserialize(s, v, c, fromSubgroup, trustLevel, point) ==
    IF c.panic
    THEN DesResult(v.bytesRead, c.err, NoErrorData, TRUE, point, v.rest)
    ELSE IF c.err # nil
    THEN DesResult(v.bytesRead, c.err, ErrorData(FALSE, OutputLength(s)), trustLevel,
                   point, v.rest)
    ELSE DesResult(v.bytesRead, nil, NoErrorData, FALSE,
                   SetFrom(point, c.point, fromSubgroup), v.rest)

\* the error of DeserializeValues is not looked at
DeserializeCurvePoint_XY_IgnoresError(s, stream, trustLevel, point) ==
    LET v == DeserializeValues_HeaderFeHeaderFe(s, stream)
        sub == IsSubgroupOnly(s) \/ CanOnlyRepresentSubgroup(point)
        c == IF sub THEN CurvePointFromXYAffine_subgroup(v.fe1, v.fe2, trustLevel)
                    ELSE CurvePointFromXYAffine_full(v.fe1, v.fe2, trustLevel)
    IN FinishDeserialize(s, v, c, sub, trustLevel, point)

DeserializeCurvePoint_XY(s, stream, trustLevel, point) ==
    LET v == DeserializeValues_HeaderFeHeaderFe(s, stream)
        sub == IsSubgroupOnly(s) \/ CanOnlyRepresentSubgroup(point)
        c == IF sub THEN CurvePointFromXYAffine_subgroup(v.fe1, v.fe2, trustLevel)
                    ELSE CurvePointFromXYAffine_full(v.fe1, v.fe2, trustLevel)
    IN IF v.err # nil
       THEN DesResult(v.bytesRead, v.err, NoErrorData, FALSE, point, v.rest)
       ELSE FinishDeserialize(s, v, c, sub, trustLevel, point)

DeserializeCurvePoint_XAndSignY(s, stream, trustLevel, point, pick) ==
    LET v == DeserializeValues_FeCompressedBit(s, stream)
        signInt == IF v.bit THEN -1 ELSE 1
        sub == IsSubgroupOnly(s) \/ CanOnlyRepresentSubgroup(point)
        c == IF sub THEN CurvePointFromXAndSignY_subgroup(v.fe, signInt, trustLevel, pick)
                    ELSE CurvePointFromXAndSignY_full(v.fe, signInt, trustLevel, pick)
    IN IF v.err # nil
       THEN DesResult(v.bytesRead, v.err, NoErrorData, FALSE, point, v.rest)
       ELSE FinishDeserialize(s, v, c, sub, trustLevel, point)

\* Point_axtw_subgroup.IsNeutralElement
IsNeutralElement_axtw_subgroup(q) == q.x = 0

\* the constructor's point is stored whatever the sign bit
DeserializeCurvePoint_YAndSignX_AnySign(s, stream, trustLevel, point, pick) ==
    LET v == DeserializeValues_FeCompressedBit(s, stream)
        signInt == IF v.bit THEN -1 ELSE 1
        sub == IsSubgroupOnly(s) \/ CanOnlyRepresentSubgroup(point)
        c == IF sub THEN CurvePointFromYAndSignX_subgroup(v.fe, signInt, trustLevel, pick)
                    ELSE CurvePointFromYAndSignX_full(v.fe, signInt, trustLevel, pick)
    IN IF v.err # nil
       THEN DesResult(v.bytesRead, v.err, NoErrorData, FALSE, point, v.rest)
       ELSE FinishDeserialize(s, v, c, sub, trustLevel, point)

DeserializeCurvePoint_YAndSignX(s, stream, trustLevel, point, pick) ==
    LET v == DeserializeValues_FeCompressedBit(s, stream)
        signInt == IF v.bit THEN -1 ELSE 1
        sub == IsSubgroupOnly(s) \/ CanOnlyRepresentSubgroup(point)
        c == IF sub THEN CurvePointFromYAndSignX_subgroup(v.fe, signInt, trustLevel, pick)
                    ELSE CurvePointFromYAndSignX_full(v.fe, signInt, trustLevel, pick)
        negativeZero ==
            IF sub THEN IsNeutralElement_axtw_subgroup(c.point) /\ v.bit
                   ELSE c.point.x = 0 /\ v.bit
    IN IF v.err # nil
       THEN DesResult(v.bytesRead, v.err, NoErrorData, FALSE, point, v.rest)
       ELSE IF (~c.panic) /\ c.err = nil /\ negativeZero
       THEN DesResult(v.bytesRead, "ErrUnexpectedNegativeZero",
                      ErrorData(FALSE, OutputLength(s)), trustLevel, point, v.rest)
       ELSE FinishDeserialize(s, v, c, sub, trustLevel, point)

\* a rejected point is reported as a partial read of no bytes
DeserializeCurvePoint_XTimesSignY_PartialRead(s, stream, trustLevel, point, pick) ==
    LET v == DeserializeValues_HeaderFe(s, stream)
        c == CurvePointFromXTimesSignY_subgroup(v.fe, trustLevel, pick)
        r == FinishDeserialize(s, v, c, TRUE, trustLevel, point)
    IN IF v.err # nil
       THEN DesResult(v.bytesRead, v.err, NoErrorData, FALSE, point, v.rest)
       ELSE IF r.errData.present THEN [r EXCEPT !.errData = ErrorData(TRUE, 0)]
       ELSE r

DeserializeCurvePoint_XTimesSignY(s, stream, trustLevel, point, pick) ==
    LET v == DeserializeValues_HeaderFe(s, stream)
        c == CurvePointFromXTimesSignY_subgroup(v.fe, trustLevel, pick)
    IN IF v.err # nil
       THEN DesResult(v.bytesRead, v.err, NoErrorData, FALSE, point, v.rest)
       ELSE FinishDeserialize(s, v, c, TRUE, trustLevel, point)

DeserializeCurvePoint_YXTimesSignY(s, stream, trustLevel, point) ==
    LET v == DeserializeValues_HeaderFeHeaderFe(s, stream)
        c == CurvePointFromXYTimesSignY_subgroup(v.fe2, v.fe1, trustLevel)
    IN IF v.err # nil
       THEN DesResult(v.bytesRead, v.err, NoErrorData, FALSE, point, v.rest)
       ELSE FinishDeserialize(s, v, c, TRUE, trustLevel, point)

DeserializeCurvePoint(s, stream, trustLevel, point, pick) ==
    CASE s.kind = KindXY -> DeserializeCurvePoint_XY(s, stream, trustLevel, point)
      [] s.kind = KindXAndSignY ->
            DeserializeCurvePoint_XAndSignY(s, stream, trustLevel, point, pick)
      [] s.kind = KindYAndSignX ->
            DeserializeCurvePoint_YAndSignX(s, stream, trustLevel, point, pick)
      [] s.kind = KindXTimesSignY ->
            DeserializeCurvePoint_XTimesSignY(s, stream, trustLevel, point, pick)
      [] s.kind = KindYXTimesSignY ->
            DeserializeCurvePoint_YXTimesSignY(s, stream, trustLevel, point)

\* ------------------------------------------------------------------------
\* The values the operations are exercised with
\* ------------------------------------------------------------------------
MaxZ == 2

\* (lam x : lam y : lam x y : lam), a representation of the affine (x, y)
Scale(sub, x, y, lam) ==
    Xtw(sub, FeMul(lam, x), FeMul(lam, y), FeMul(lam, FeMul(x, y)), lam)

CurvePoints == {q \in Fp \X Fp : isPointOnCurve_axtw(Axtw(q[1], q[2], FeMul(q[1], q[2])))}
SubgroupPoints ==
    {q \in CurvePoints : IsInSubgroup_axtw_full(Axtw(q[1], q[2], FeMul(q[1], q[2])))}
\* the two representatives of every subgroup element modulo A
DecafPoints == SubgroupPoints \cup {<<FeNeg(q[1]), FeNeg(q[2])>> : q \in SubgroupPoints}

exceptionalPoint_1_xtw == Xtw(FALSE, squareRootDbyA_fe, 0, fieldElementOne, 0)
exceptionalPoint_2_xtw == Xtw(FALSE, squareRootDbyA_fe, 0, FieldElementMinusOne, 0)

\* Points a caller can hold: valid points in any representation, and NaPs
InputPoints ==
    {Scale(FALSE, q[1], q[2], lam) : q \in CurvePoints, lam \in 1 .. MaxZ}
      \cup {Scale(TRUE, q[1], q[2], lam) : q \in DecafPoints, lam \in 1 .. MaxZ}
      \cup {exceptionalPoint_1_xtw, exceptionalPoint_2_xtw}
      \cup {Xtw(FALSE, 0, 0, 0, 0), Xtw(TRUE, 0, 0, 0, 0), Xtw(FALSE, 0, 0, 0, 1)}

\* Output points handed to DeserializeCurvePoint: zero-initialized
\* variables of both types and variables that hold an earlier result
Receivers ==
    {Xtw(FALSE, 0, 0, 0, 0), Xtw(TRUE, 0, 0, 0, 0),
     Xtw(TRUE, 0, 1, 0, 1)}
      \cup {Scale(sub, q[1], q[2], MaxZ) :
              sub \in BOOLEAN, q \in {r \in SubgroupPoints : r[1] = 4}}

Serializers ==
    {Serializer(KindXY, e, so, h[1], h[2]) :
        e \in Endiannesses, so \in BOOLEAN,
        h \in {<<NoHeader, NoHeader>>, <<BitHeader(1, 1), BitHeader(0, 1)>>}}
      \cup {Serializer(k, e, so, NoHeader, NoHeader) :
              k \in {KindXAndSignY, KindYAndSignX}, e \in Endiannesses, so \in BOOLEAN}
      \cup {Serializer(KindXTimesSignY, e, TRUE, h, NoHeader) :
              e \in Endiannesses, h \in {NoHeader, bitHeaderBanderwagonX}}
      \cup {Serializer(KindYXTimesSignY, e, TRUE, h[1], h[2]) :
              e \in Endiannesses,
              h \in {<<NoHeader, NoHeader>>, <<bitHeaderBanderwagonY, bitHeaderBanderwagonX>>}}

TwoWords(s) == s.kind \in {KindXY, KindYXTimesSignY}
HasSignBit(s) == s.kind \in {KindXAndSignY, KindYAndSignX}

\* The well-framed byte string that carries the given values
Framed(s, v1, v2, bit) ==
    IF TwoWords(s) THEN SerializeValues_HeaderFeHeaderFe(s, v1, v2)
    ELSE IF HasSignBit(s) THEN SerializeValues_FeCompressedBit(s, v1, bit)
    ELSE SerializeValues_HeaderFe(s, v1)

Shapes == {"framed", "trailing", "header", "header2", "nonzero", "modulus",
           "cut0", "cut15", "cut32", "cut47", "zeros", "modulus1"}
FewValues == {1, 4, 13}
TrailingByte == 2 ^ ByteBits - 1

\* the same word with one byte of its big-endian view replaced
Patch(word, endianness, i, b) ==
    OnWire([OnWire(word, endianness) EXCEPT ![i] = b], endianness)
FirstWord(w) == SubSeq(w, 1, FeLen)
LastWord(w) == SubSeq(w, Len(w) - FeLen + 1, Len(w))
ButLast(w) == SubSeq(w, 1, Len(w) - FeLen)
ButFirst(w) == SubSeq(w, FeLen + 1, Len(w))
FlipHeader(word, hdr, endianness) ==
    Patch(word, endianness, 1,
          (OnWire(word, endianness)[1] + 2 ^ (ByteBits - hdr.len)) % 2 ^ ByteBits)

ShapeApplies(s, shape) ==
    CASE shape = "header" -> s.bitHeader.len > 0
      [] shape = "header2" -> TwoWords(s) /\ s.bitHeader2.len > 0
      [] shape \in {"cut32", "cut47", "modulus1"} -> TwoWords(s)
      [] OTHER -> TRUE

Shaped(s, w, shape) ==
    CASE shape = "framed" -> w
      [] shape = "trailing" -> w \o <<TrailingByte>>
      [] shape = "header" -> FlipHeader(FirstWord(w), s.bitHeader, s.endianness) \o ButFirst(w)
      [] shape = "header2" -> ButLast(w) \o FlipHeader(LastWord(w), s.bitHeader2, s.endianness)
      [] shape = "nonzero" -> ButLast(w) \o Patch(LastWord(w), s.endianness, 2, 1)
      [] shape = "modulus" -> ButLast(w) \o Patch(LastWord(w), s.endianness, FeLen, BaseFieldSize)
      [] shape = "modulus1" ->
            Patch(FirstWord(w), s.endianness, FeLen, BaseFieldSize) \o ButFirst(w)
      [] shape = "zeros" -> Zeros(Len(w))
      [] shape = "cut0" -> <<>>
      [] shape = "cut15" -> SubSeq(w, 1, 15)
      [] shape = "cut32" -> SubSeq(w, 1, 32)
      [] shape = "cut47" -> SubSeq(w, 1, 47)

\* ------------------------------------------------------------------------
\* State: one serializer, one caller-held output point, the point given to
\* SerializeCurvePoint, the bytes in the buffer and the results of the calls
\* ------------------------------------------------------------------------
VARIABLES s, receiver, origin, given, wr, wire, done, rd, reserialized, rs

\* State of the parts that are exercised on their own: the serializer
\* instances a caller holds (heap, last), a call of one of the coordinate
\* functions (call), and a reader and a writer with the caller's buffer and
\* the result of the helper that used them (reader, writer, buf, io)
VARIABLES heap, last, call, reader, writer, buf, io

pointvars == <<s, receiver, origin, given, wr, wire, done, rd, reserialized, rs>>
utilvars == <<heap, last, call, reader, writer, buf, io>>
vars == <<s, receiver, origin, given, wr, wire, done, rd, reserialized, rs,
          heap, last, call, reader, writer, buf, io>>

NoCall == [fn |-> "none"]
UtilIdle ==
    /\ heap = <<>>
    /\ last = NoCall
    /\ call = NoCall
    /\ reader = <<>>
    /\ writer = <<>>
    /\ buf = <<>>
    /\ io = NoCall

NoWrite == SerResult(0, nil, NoErrorData, FALSE, <<>>, Xtw(FALSE, 0, 0, 0, 0))
NoRead(point) == DesResult(0, nil, NoErrorData, FALSE, point, <<>>)

Init ==
    /\ s \in Serializers
    /\ receiver \in Receivers
    /\ origin = "none"
    /\ given = Xtw(FALSE, 0, 0, 0, 0)
    /\ wr = NoWrite
    /\ wire = <<>>
    /\ done = {}
    /\ rd = [trustLevel \in TrustLevels |-> NoRead(receiver)]
    /\ reserialized = FALSE
    /\ rs = NoWrite
    /\ UtilIdle

\* s.SerializeCurvePoint(&buf, &P) on an empty buffer
Serialize(P) ==
    /\ origin = "none"
    /\ origin' = "written"
    /\ given' = P
    /\ wr' = SerializeCurvePoint(s, P)
    /\ wire' = wr'.out
    /\ UNCHANGED <<s, receiver, done, rd, reserialized, rs, utilvars>>

\* the buffer is filled by someone else
Forge(v1, v2, bit, shape) ==
    /\ origin = "none"
    /\ ShapeApplies(s, shape)
    /\ TwoWords(s) \/ v2 = 0
    /\ HasSignBit(s) \/ ~bit
    /\ shape = "framed" \/ (v1 \in FewValues /\ v2 \in FewValues \cup {0})
    /\ origin' = "forged"
    /\ wire' = Shaped(s, Framed(s, v1, v2, bit), shape)
    /\ UNCHANGED <<s, receiver, given, wr, done, rd, reserialized, rs, utilvars>>

\* s.DeserializeCurvePoint(bytes.NewReader(wire), trustLevel, &point) with
\* point holding the value of receiver
Deserialize(trustLevel, pick) ==
    /\ origin \in {"written", "forged"}
    /\ ~wr.panic
    /\ trustLevel \notin done
    /\ done' = done \cup {trustLevel}
    /\ rd' = [rd EXCEPT ![trustLevel] =
                 DeserializeCurvePoint(s, wire, trustLevel, receiver, pick)]
    /\ UNCHANGED <<s, receiver, origin, given, wr, wire, reserialized, rs, utilvars>>

\* s.SerializeCurvePoint(&buf2, &point) on the point read with UntrustedInput
ReSerialize ==
    /\ UntrustedInput \in done
    /\ rd[UntrustedInput].err = nil
    /\ ~rd[UntrustedInput].panic
    /\ ~reserialized
    /\ reserialized' = TRUE
    /\ rs' = SerializeCurvePoint(s, rd[UntrustedInput].point)
    /\ UNCHANGED <<s, receiver, origin, given, wr, wire, done, rd, utilvars>>

Next ==
    \/ origin = "none" /\ \E P \in InputPoints : Serialize(P)
    \/ origin = "none" /\ \E shape \in Shapes, bit \in BOOLEAN, v1 \in Fp, v2 \in Fp :
                            Forge(v1, v2, bit, shape)
    \/ \E trustLevel \in TrustLevels \ done, pick \in RootChoices :
          Deserialize(trustLevel, pick)
    \/ ReSerialize

Spec == Init /\ [][Next]_vars
\* ------------------------------------------------------------------------
\* What a stored point denotes
\* ------------------------------------------------------------------------
\* The affine coordinates (x/z, y/z, t/z) the accessors of the point type
\* compute; for Point_xtw_subgroup the representative singled out by
\* normalizeSubgroup.  A NaP or a point without affine coordinates denotes
\* nothing.
Denote(p) ==
    LET n == XY_affine(p)
    IN IF IsNaP(p) THEN <<"NaP">>
       ELSE IF n.panic THEN <<"none">>
       ELSE <<n.p.x, n.p.y, n.p.t>>

\* the denotation of P + A, A = (0, -1)
PlusA(d) == IF Len(d) = 3 THEN <<FeNeg(d[1]), FeNeg(d[2]), d[3]>> ELSE d

ModuloA(s0) == s0.kind \in {KindXTimesSignY, KindYXTimesSignY}

Succeeded(r) == r.err = nil /\ ~r.panic

\* C1: round trip.  For every scheme and every point P the scheme accepts
\* for serialization, SerializeCurvePoint followed by DeserializeCurvePoint
\* with UntrustedInput on the written bytes succeeds and yields a point
\* equal to P (P or P + A for X*SignY and YX*SignY).  The output point is
\* taken to be of a type that can hold P.
C1_RoundTrip ==
    (/\ origin = "written"
     /\ Succeeded(wr)
     /\ UntrustedInput \in done
     /\ (receiver.sub => IsInSubgroup(given)))
    => /\ Succeeded(rd[UntrustedInput])
       /\ \/ Denote(rd[UntrustedInput].point) = Denote(given)
          \/ /\ ModuloA(s)
             /\ Denote(rd[UntrustedInput].point) = PlusA(Denote(given))

\* C2: whenever DeserializeCurvePoint ends with an error or a panic, under
\* either trust level, the output point has the value it had before the call.
C2_OutputUntouchedOnError ==
    \A trustLevel \in done :
        ~Succeeded(rd[trustLevel]) => rd[trustLevel].point = receiver

\* a failed read into an output point that held an earlier result, once
\* returned and once panicked
C2_Witness ==
    /\ done = TrustLevels
    /\ ~IsNaP(receiver)
    /\ rd[UntrustedInput].err # nil /\ ~rd[UntrustedInput].panic
    /\ rd[TrustedInput].panic
    /\ rd[UntrustedInput].point = receiver
    /\ rd[TrustedInput].point = receiver
\* Errors of reading the words themselves, before any point is built
FramingErrors == {"EOF", "ErrUnexpectedEOF", "ErrHeaderMismatch", "ErrValueExceedsFieldSize"}

\* the bytes were well framed and UntrustedInput rejected the point they carry
RejectedPoint ==
    /\ done = TrustLevels
    /\ rd[UntrustedInput].err # nil
    /\ rd[UntrustedInput].err \notin FramingErrors

DetectedWhenTrusted ==
    {"ErrXNotOnCurve", "ErrYNotOnCurve", "ErrUnexpectedNegativeZero"}

C4_TrustedUntrustedParity ==
    (done = TrustLevels /\ Succeeded(rd[UntrustedInput])) =>
        /\ Succeeded(rd[TrustedInput])
        /\ rd[TrustedInput].bytesRead = rd[UntrustedInput].bytesRead
        /\ rd[TrustedInput].point = rd[UntrustedInput].point
        /\ Denote(rd[TrustedInput].point) = Denote(rd[UntrustedInput].point)

\* both trust levels have read the bytes written for a point with y of
\* negative sign, so the recovered root had to be matched to the sign
C4_Witness ==
    /\ done = TrustLevels
    /\ origin = "written"
    /\ s.kind \in {KindXAndSignY, KindXTimesSignY}
    /\ Succeeded(rd[UntrustedInput])
    /\ Succeeded(rd[TrustedInput])
    /\ Sign(rd[TrustedInput].point.y) < 0
    /\ rd[TrustedInput].point.z = fieldElementOne
\* C5: canonical encoding modulo A.  Under X*SignY and YX*SignY every
\* representation of the subgroup element that was serialized, its twin
\* (-x, -y) included, serializes to the very same bytes.
C5_CanonicalModuloA ==
    (origin = "written" /\ ModuloA(s) /\ Succeeded(wr)) =>
        /\ given.sub => SerializeCurvePoint(s, flipDecaf(given)).out = wr.out
        /\ \A P \in InputPoints :
             (Denote(P) = Denote(given) /\ P.sub = given.sub)
                => /\ Succeeded(SerializeCurvePoint(s, P))
                   /\ SerializeCurvePoint(s, P).out = wr.out

\* a subgroup element was serialized from the representative on which
\* normalizeSubgroup would act, the twin of the one that is in the subgroup
C5_Witness ==
    /\ origin = "written"
    /\ ModuloA(s)
    /\ Succeeded(wr)
    /\ given.sub
    /\ ~IsNaP(given)
    /\ given.x # 0
    /\ ~legendreCheckE1_projectiveYZ(given.y, given.z)
    /\ Len(wr.out) = OutputLength(s)

\* C6: encode after decode is the identity.  For every byte string of the
\* scheme's length on which DeserializeCurvePoint with UntrustedInput
\* succeeds, SerializeCurvePoint of the stored point succeeds and writes
\* exactly those bytes.
C6_EncodeAfterDecode ==
    (reserialized /\ Len(wire) = OutputLength(s)) =>
        /\ Succeeded(rs)
        /\ rs.out = wire
\* C7: Y+SignX rejects the negative zero.  When the y that was read gives a
\* point with x = 0 (y = 1, and y = -1 in the full-curve branch) and the
\* sign bit is set, DeserializeCurvePoint returns ErrUnexpectedNegativeZero
\* under UntrustedInput and panics under TrustedInput, and stores nothing;
\* with the sign bit clear the same y is accepted; SerializeCurvePoint never
\* sets the sign bit of a point with x = 0.
C7_NegativeZero ==
    s.kind = KindYAndSignX =>
        LET d     == DeserializeValues_FeCompressedBit(s, wire)
            sub   == IsSubgroupOnly(s) \/ CanOnlyRepresentSubgroup(receiver)
            zeroX == d.err = nil
                       /\ (d.fe = fieldElementOne \/ (d.fe = FieldElementMinusOne /\ ~sub))
        IN /\ \A trustLevel \in done :
                (zeroX /\ d.bit) =>
                    /\ rd[trustLevel].err = "ErrUnexpectedNegativeZero"
                    /\ rd[trustLevel].panic = trustLevel
                    /\ rd[trustLevel].point = receiver
           /\ \A trustLevel \in done :
                (zeroX /\ ~d.bit) =>
                    /\ Succeeded(rd[trustLevel])
                    /\ rd[trustLevel].point.x = 0
                    /\ rd[trustLevel].point.y = d.fe
           /\ (origin = "written" /\ Succeeded(wr) /\ wr.point.x = 0) => ~d.bit

\* y = -1 with the sign bit set, read into a full-curve point: an error
\* for UntrustedInput, a panic for TrustedInput
C7_Witness ==
    /\ s.kind = KindYAndSignX
    /\ done = TrustLevels
    /\ ~receiver.sub
    /\ DeserializeValues_FeCompressedBit(s, wire).fe = FieldElementMinusOne
    /\ rd[UntrustedInput].err = "ErrUnexpectedNegativeZero"
    /\ ~rd[UntrustedInput].panic
    /\ rd[TrustedInput].panic

\* The well-framed bytes that carry the coordinates of the affine point q
Encodes(s0, q) ==
    LET neg == Sign(q[2]) < 0
        xs  == IF neg THEN FeNeg(q[1]) ELSE q[1]
        ys  == IF neg THEN FeNeg(q[2]) ELSE q[2]
    IN CASE s0.kind = KindXY -> Framed(s0, q[1], q[2], FALSE)
         [] s0.kind = KindXAndSignY -> Framed(s0, q[1], 0, Sign(q[2]) < 0)
         [] s0.kind = KindYAndSignX -> Framed(s0, q[2], 0, Sign(q[1]) < 0)
         [] s0.kind = KindXTimesSignY -> Framed(s0, xs, 0, FALSE)
         [] s0.kind = KindYXTimesSignY -> Framed(s0, ys, xs, FALSE)

SubgroupErrors == {"ErrXNotInSubgroup", "ErrNotInSubgroup"}

RefusedAsOutsideSubgroup ==
    /\ rd[UntrustedInput].err \in SubgroupErrors
    /\ s.kind = KindXTimesSignY => rd[UntrustedInput].err = "ErrXNotInSubgroup"
    /\ ~rd[UntrustedInput].panic
    /\ rd[UntrustedInput].point = receiver

\* C8 as stated: a subgroup-only scheme given, with UntrustedInput, the
\* coordinates of any curve point outside the subgroup returns
\* ErrXNotInSubgroup or ErrNotInSubgroup (X*SignY: ErrXNotInSubgroup).
C8_SubgroupEnforced ==
    (/\ IsSubgroupOnly(s)
     /\ UntrustedInput \in done
     /\ \E q \in CurvePoints \ SubgroupPoints : wire = Encodes(s, q))
    => RefusedAsOutsideSubgroup

\* C8, corrected: the refusal holds for the coordinates of curve points
\* outside the subgroup that are not also the coordinates of a subgroup
\* point; under X*SignY and YX*SignY the point P + A has the coordinates
\* of the subgroup point P and is accepted as P.
C8_SubgroupEnforcedModuloA ==
    (/\ IsSubgroupOnly(s)
     /\ UntrustedInput \in done
     /\ \E q \in CurvePoints \ SubgroupPoints : wire = Encodes(s, q)
     /\ \A q \in SubgroupPoints : wire # Encodes(s, q))
    => RefusedAsOutsideSubgroup

\* X*SignY has refused the x of a curve point that is outside the subgroup
\* even modulo A
C8_Witness ==
    /\ s.kind = KindXTimesSignY
    /\ UntrustedInput \in done
    /\ \E q \in CurvePoints \ SubgroupPoints : wire = Encodes(s, q)
    /\ rd[UntrustedInput].err = "ErrXNotInSubgroup"
\* the point handed to SerializeCurvePoint lies outside the subgroup
OutsideSubgroup(p) ==
    LET d == Denote(p) IN Len(d) = 3 /\ <<d[1], d[2]>> \notin SubgroupPoints

\* C9: refusal to serialize.  SerializeCurvePoint returns
\* ErrCannotSerializeNaP for a NaP, else ErrCannotSerializePointAtInfinity
\* for a point at infinity, else ErrWillNotSerializePointOutsideSubgroup for
\* a point outside the subgroup when the scheme is subgroup-only, and no
\* error otherwise; a refusal returns bytesWritten = 0 with error data
\* BytesWritten = 0, PartialWrite = false and writes nothing.
C9_Refusal ==
    origin = "written" =>
        /\ wr.err =
             IF IsNaP(given) THEN "ErrCannotSerializeNaP"
             ELSE IF given.z = 0 THEN "ErrCannotSerializePointAtInfinity"
             ELSE IF IsSubgroupOnly(s) /\ OutsideSubgroup(given)
             THEN "ErrWillNotSerializePointOutsideSubgroup"
             ELSE nil
        /\ wr.err # nil =>
             /\ wr.bytesWritten = 0
             /\ wr.errData.present
             /\ wr.errData.Bytes = 0
             /\ wr.errData.Partial = FALSE
             /\ wr.out = <<>>
             /\ wire = <<>>
             /\ ~wr.panic
             /\ wr.point = given

\* XY with the subgroup flag set has refused a finite curve point outside
\* the subgroup
C9_Witness ==
    /\ origin = "written"
    /\ s.kind = KindXY
    /\ s.subgroupOnly
    /\ ~IsNaP(given) /\ given.z # 0
    /\ OutsideSubgroup(given)
    /\ wr.err = "ErrWillNotSerializePointOutsideSubgroup"
    /\ wire = <<>>

\* C10: fixed length.  Every successful SerializeCurvePoint writes exactly
\* OutputLength() bytes and returns that count, every successful
\* DeserializeCurvePoint consumes exactly OutputLength() bytes and returns
\* that count; OutputLength is 64 for XY and YX*SignY and 32 for the other
\* three, whatever the point and the endianness.
C10_FixedLength ==
    /\ OutputLength(s) = IF s.kind \in {KindXY, KindYXTimesSignY} THEN 64 ELSE 32
    /\ (origin = "written" /\ Succeeded(wr)) =>
          /\ Len(wr.out) = OutputLength(s)
          /\ wr.bytesWritten = OutputLength(s)
    /\ (reserialized /\ Succeeded(rs)) =>
          /\ Len(rs.out) = OutputLength(s)
          /\ rs.bytesWritten = OutputLength(s)
    /\ \A trustLevel \in done :
          Succeeded(rd[trustLevel]) =>
              /\ rd[trustLevel].bytesRead = OutputLength(s)
              /\ Len(wire) - Len(rd[trustLevel].rest) = OutputLength(s)

\* a little-endian two-word scheme has read a point from a buffer that
\* holds one more byte, and left that byte
C10_Witness ==
    /\ s.kind = KindYXTimesSignY
    /\ s.endianness = LittleEndian
    /\ UntrustedInput \in done
    /\ Succeeded(rd[UntrustedInput])
    /\ rd[UntrustedInput].bytesRead = 64
    /\ rd[UntrustedInput].rest = <<TrailingByte>>
\* The deployed Banderwagon encoders, in either byte order
IsBanderwagonShort(s0) ==
    s0.kind = KindXTimesSignY /\ s0.bitHeader = bitHeaderBanderwagonX
IsBanderwagonLong(s0) ==
    /\ s0.kind = KindYXTimesSignY
    /\ s0.bitHeader = bitHeaderBanderwagonY
    /\ s0.bitHeader2 = bitHeaderBanderwagonX

\* C11: with the Banderwagon encoders an all-zero input never decodes to
\* the neutral element: 32 zero bytes fail with ErrHeaderMismatch under the
\* short encoder, 64 zero bytes fail under the long one, for both trust
\* levels, and nothing is stored.
C11_AllZeroRejected ==
    ((IsBanderwagonShort(s) \/ IsBanderwagonLong(s)) /\ wire = Zeros(OutputLength(s))) =>
        \A trustLevel \in done :
            /\ rd[trustLevel].err # nil
            /\ IsBanderwagonShort(s) => rd[trustLevel].err = "ErrHeaderMismatch"
            /\ ~rd[trustLevel].panic
            /\ rd[trustLevel].point = receiver

\* both trust levels have read 32 zero bytes with the short encoder
C11_Witness ==
    /\ IsBanderwagonShort(s)
    /\ s.endianness = LittleEndian
    /\ wire = Zeros(32)
    /\ done = TrustLevels
    /\ rd[UntrustedInput].err = "ErrHeaderMismatch"
    /\ rd[TrustedInput].err = "ErrHeaderMismatch"
    /\ rd[TrustedInput].bytesRead = 32
\* The length of the header of the i-th word of the scheme (the sign bit of
\* the compressed-bit schemes counts as a header of one bit of any value)
HeaderOfWord(s0, i) ==
    IF HasSignBit(s0) THEN BitHeader(0, 1)
    ELSE IF i = 1 THEN s0.bitHeader ELSE s0.bitHeader2
WordOf(w, i) == SubSeq(w, (i - 1) * FeLen + 1, i * FeLen)
WordCount(s0) == IF TwoWords(s0) THEN 2 ELSE 1

HeaderMatches(s0, w, i) ==
    HasSignBit(s0) \/
        DecodeWord(WordOf(w, i), HeaderOfWord(s0, i).len, s0.endianness).bits
            = HeaderOfWord(s0, i).bits
ValueExceeds(s0, w, i) ==
    DecodeWord(WordOf(w, i), HeaderOfWord(s0, i).len, s0.endianness).big

\* the first word that is not the encoding of a field element has the right
\* header and a value of at least BaseFieldSize below it
OutOfRangeWord(s0, w) ==
    /\ Len(w) >= OutputLength(s0)
    /\ \E i \in 1 .. WordCount(s0) :
          /\ HeaderMatches(s0, w, i) /\ ValueExceeds(s0, w, i)
          /\ \A j \in 1 .. (i - 1) : HeaderMatches(s0, w, j) /\ ~ValueExceeds(s0, w, j)

\* C12: out-of-range field values are rejected.  A word whose value below
\* the header and sign bits is at least the field prime makes decoding fail
\* with ErrValueExceedsFieldSize, under both trust levels and without a
\* point being stored; hence the bytes of an accepted word are those the
\* serializer writes for the value read from it.
C12_OutOfRangeRejected ==
    \A trustLevel \in done :
        /\ OutOfRangeWord(s, wire) =>
              /\ rd[trustLevel].err = "ErrValueExceedsFieldSize"
              /\ ~rd[trustLevel].panic
              /\ rd[trustLevel].point = receiver
        /\ (Len(wire) >= OutputLength(s) /\ rd[trustLevel].err \notin FramingErrors) =>
              \A i \in 1 .. WordCount(s) :
                  LET d == DecodeWord(WordOf(wire, i), HeaderOfWord(s, i).len, s.endianness)
                  IN WordOf(wire, i) =
                        SerializeWithPrefix(d.fe, BitHeader(d.bits, HeaderOfWord(s, i).len),
                                            s.endianness)

\* a word whose value is exactly the field prime, under a one-word and
\* under a two-word scheme
C12_Witness ==
    /\ done = TrustLevels
    /\ OutOfRangeWord(s, wire)
    /\ s.kind = KindXY
    /\ s.endianness = LittleEndian
    /\ DecodeWord(WordOf(wire, 1), HeaderOfWord(s, 1).len, s.endianness).fe = BaseFieldSize
    /\ rd[UntrustedInput].err = "ErrValueExceedsFieldSize"
    /\ rd[TrustedInput].err = "ErrValueExceedsFieldSize"
\* ---------------------------------------------------------------------------
\* Serializer instances: Clone, WithParameter, WithEndianness
\* ---------------------------------------------------------------------------

MaxInstances == 2

\* the parameters an instance of each type has
ParameterNames(kind) ==
    {"Endianness"}
      \cup (IF kind \in {KindXY, KindXAndSignY, KindYAndSignX} THEN {"SubgroupOnly"} ELSE {})
      \cup (IF kind \in {KindXY, KindXTimesSignY, KindYXTimesSignY} THEN {"BitHeader"} ELSE {})
      \cup (IF kind \in {KindXY, KindYXTimesSignY} THEN {"BitHeader2"} ELSE {})

ParameterValues(param) ==
    CASE param = "Endianness" -> Endiannesses
      [] param = "SubgroupOnly" -> BOOLEAN
      [] OTHER -> {NoHeader, bitHeaderBanderwagonX}

GetParameter(ser, parameterName) ==
    CASE parameterName = "Endianness" -> ser.endianness
      [] parameterName = "SubgroupOnly" -> ser.subgroupOnly
      [] parameterName = "BitHeader" -> ser.bitHeader
      [] OTHER -> ser.bitHeader2

\* assignment to one field of an instance
setParameter(ser, parameterName, newParam) ==
    CASE parameterName = "Endianness" -> [ser EXCEPT !.endianness = newParam]
      [] parameterName = "SubgroupOnly" -> [ser EXCEPT !.subgroupOnly = newParam]
      [] parameterName = "BitHeader" -> [ser EXCEPT !.bitHeader = newParam]
      [] OTHER -> [ser EXCEPT !.bitHeader2 = newParam]

\* a copy by value of the receiver with one parameter replaced
makeCopyWithParams(ser, param, newParam) == setParameter(ser, param, newParam)

\* the struct copy *s; the Y-and-sign-X type copies its two members by name
sCopy(ser) ==
    IF ser.kind = KindYAndSignX
    THEN Serializer(KindYAndSignX, ser.endianness, ser.subgroupOnly, NoHeader, NoHeader)
    ELSE ser

\* Operations on the instances the caller holds: h is the sequence of the
\* instances allocated so far, an address is an index into it, and the result
\* is the new sequence with the address of the returned instance.
\* a Clone that hands the receiver itself back
Clone_SameInstance(h, a) == [heap |-> h, ret |-> a]
Clone(h, a) == [heap |-> Append(h, sCopy(h[a])), ret |-> Len(h) + 1]

WithParameter(h, a, param, newParam) ==
    [heap |-> Append(h, makeCopyWithParams(h[a], param, newParam)), ret |-> Len(h) + 1]

WithEndianness(h, a, newEndianness) == WithParameter(h, a, "Endianness", newEndianness)

Called(fn, a, r, param, newParam) ==
    [fn |-> fn, receiver |-> a, ret |-> r, param |-> param, newParam |-> newParam,
     before |-> heap]

CallClone(a) ==
    /\ Len(heap) < MaxInstances
    /\ heap' = Clone(heap, a).heap
    /\ last' = Called("Clone", a, Clone(heap, a).ret, "none", nil)
    /\ UNCHANGED <<pointvars, call, reader, writer, buf, io>>

CallWithParameter(a, param, newParam) ==
    /\ Len(heap) < MaxInstances
    /\ param \in ParameterNames(heap[a].kind) \ {"Endianness"}
    /\ heap' = WithParameter(heap, a, param, newParam).heap
    /\ last' = Called("WithParameter", a, WithParameter(heap, a, param, newParam).ret,
                      param, newParam)
    /\ UNCHANGED <<pointvars, call, reader, writer, buf, io>>

CallWithEndianness(a, newEndianness) ==
    /\ Len(heap) < MaxInstances
    /\ heap' = WithEndianness(heap, a, newEndianness).heap
    /\ last' = Called("WithEndianness", a, WithEndianness(heap, a, newEndianness).ret,
                      "Endianness", newEndianness)
    /\ UNCHANGED <<pointvars, call, reader, writer, buf, io>>

\* the caller changes a parameter of an instance it holds, in place, once
\* after each call
Assign(a, param, newParam) ==
    /\ last.fn # "assign"
    /\ param \in ParameterNames(heap[a].kind)
    /\ GetParameter(heap[a], param) # newParam
    /\ heap' = [heap EXCEPT ![a] = setParameter(@, param, newParam)]
    /\ last' = Called("assign", a, a, param, newParam)
    /\ UNCHANGED <<pointvars, call, reader, writer, buf, io>>

PointIdle ==
    /\ s = Serializer(KindXY, BigEndian, FALSE, NoHeader, NoHeader)
    /\ receiver = Xtw(FALSE, 0, 0, 0, 0)
    /\ origin = "none"
    /\ given = Xtw(FALSE, 0, 0, 0, 0)
    /\ wr = NoWrite
    /\ wire = <<>>
    /\ done = {}
    /\ rd = [trustLevel \in TrustLevels |-> NoRead(receiver)]
    /\ reserialized = FALSE
    /\ rs = NoWrite

InitInstances ==
    /\ PointIdle
    /\ heap \in {<<ser>> : ser \in Serializers}
    /\ last = NoCall
    /\ call = NoCall
    /\ reader = <<>>
    /\ writer = <<>>
    /\ buf = <<>>
    /\ io = NoCall

AllParameterNames == {"Endianness", "SubgroupOnly", "BitHeader", "BitHeader2"}

NextInstances ==
    \/ \E a \in DOMAIN heap : CallClone(a)
    \/ \E a \in DOMAIN heap, param \in AllParameterNames :
            \E newParam \in ParameterValues(param) : CallWithParameter(a, param, newParam)
    \/ \E a \in DOMAIN heap, newEndianness \in Endiannesses : CallWithEndianness(a, newEndianness)
    \/ \E a \in DOMAIN heap, param \in AllParameterNames :
            \E newParam \in ParameterValues(param) : Assign(a, param, newParam)

SpecInstances == InitInstances /\ [][NextInstances]_vars

\* C13: Clone, WithParameter and WithEndianness leave every instance that
\* existed before the call as it was, the receiver included, and return an
\* instance that did not exist before and that agrees with the receiver on
\* every parameter except the one replaced, which has the new value; a later
\* change to an instance changes no other instance, so a change to the copy
\* is not visible through the original.
C13_CopiesAreFresh ==
    /\ last.fn \in {"Clone", "WithParameter", "WithEndianness"} =>
          /\ \A a \in DOMAIN last.before : heap[a] = last.before[a]
          /\ last.ret \in DOMAIN heap \ DOMAIN last.before
          /\ heap[last.ret].kind = last.before[last.receiver].kind
          /\ \A param \in ParameterNames(heap[last.ret].kind) \ {last.param} :
                GetParameter(heap[last.ret], param)
                    = GetParameter(last.before[last.receiver], param)
          /\ last.param # "none" =>
                GetParameter(heap[last.ret], last.param) = last.newParam
    /\ last.fn = "assign" =>
          /\ DOMAIN heap = DOMAIN last.before
          /\ \A a \in DOMAIN heap \ {last.receiver} : heap[a] = last.before[a]

\* a copy of the first instance was changed afterwards and now differs from it
C13_Witness ==
    /\ last.fn = "assign"
    /\ last.receiver = 2
    /\ Len(heap) = 2
    /\ heap[2] # heap[1]
    /\ heap[2].endianness # heap[1].endianness

\* ---------------------------------------------------------------------------
\* Calls of the coordinate functions on their own
\* ---------------------------------------------------------------------------

MadeCall(fn, x, legendreCheckX, point, val, err, panic) ==
    [fn |-> fn, x |-> x, legendreCheckX |-> legendreCheckX, point |-> point,
     val |-> val, err |-> err, panic |-> panic]

CallRecoverYFromXAffine(x, legendreCheckX, pick) ==
    /\ call' = MadeCall("recoverYFromXAffine", x, legendreCheckX, NaP_axtw,
                        recoverYFromXAffine(x, legendreCheckX, pick).y,
                        recoverYFromXAffine(x, legendreCheckX, pick).err, FALSE)
    /\ UNCHANGED <<pointvars, heap, last, reader, writer, buf, io>>

CallRecoverXFromYAffine(y, pick) ==
    /\ call' = MadeCall("recoverXFromYAffine", y, FALSE, NaP_axtw,
                        recoverXFromYAffine(y, pick).x,
                        recoverXFromYAffine(y, pick).err, FALSE)
    /\ UNCHANGED <<pointvars, heap, last, reader, writer, buf, io>>

CallMapToFieldElement(input) ==
    /\ call' = MadeCall("MapToFieldElement", 0, FALSE, input,
                        MapToFieldElement(input).val, nil,
                        MapToFieldElement(input).panic)
    /\ UNCHANGED <<pointvars, heap, last, reader, writer, buf, io>>

\* The CurvePointFrom* constructors by name.  arg2 is the second coordinate,
\* or the sign, or unused.
ConstructorsXY == {"CurvePointFromXYAffine_full", "CurvePointFromXYAffine_subgroup",
                   "CurvePointFromXYTimesSignY_subgroup"}
ConstructorsSign == {"CurvePointFromXAndSignY_full", "CurvePointFromXAndSignY_subgroup",
                     "CurvePointFromYAndSignX_full", "CurvePointFromYAndSignX_subgroup"}
ConstructorsX == {"CurvePointFromXTimesSignY_subgroup"}
Constructors == ConstructorsXY \cup ConstructorsSign \cup ConstructorsX

\* the int values a caller passes as a sign, valid or not
SignArguments == {-2, -1, 0, 1, 2}

SecondArguments(fn) ==
    IF fn \in ConstructorsXY THEN Fp
    ELSE IF fn \in ConstructorsSign THEN SignArguments
    ELSE {0}

CurvePointFrom(fn, arg1, arg2, trustLevel, pick) ==
    CASE fn = "CurvePointFromXYAffine_full" -> CurvePointFromXYAffine_full(arg1, arg2, trustLevel)
      [] fn = "CurvePointFromXYAffine_subgroup" ->
            CurvePointFromXYAffine_subgroup(arg1, arg2, trustLevel)
      [] fn = "CurvePointFromXYTimesSignY_subgroup" ->
            CurvePointFromXYTimesSignY_subgroup(arg1, arg2, trustLevel)
      [] fn = "CurvePointFromXAndSignY_full" ->
            CurvePointFromXAndSignY_full(arg1, arg2, trustLevel, pick)
      [] fn = "CurvePointFromXAndSignY_subgroup" ->
            CurvePointFromXAndSignY_subgroup(arg1, arg2, trustLevel, pick)
      [] fn = "CurvePointFromYAndSignX_full" ->
            CurvePointFromYAndSignX_full(arg1, arg2, trustLevel, pick)
      [] fn = "CurvePointFromYAndSignX_subgroup" ->
            CurvePointFromYAndSignX_subgroup(arg1, arg2, trustLevel, pick)
      [] OTHER -> CurvePointFromXTimesSignY_subgroup(arg1, trustLevel, pick)

CallCurvePointFrom(fn, arg1, arg2, trustLevel, pick) ==
    /\ call' = [fn |-> fn, arg1 |-> arg1, arg2 |-> arg2, trustLevel |-> trustLevel,
                pick |-> pick,
                point |-> CurvePointFrom(fn, arg1, arg2, trustLevel, pick).point,
                err |-> CurvePointFrom(fn, arg1, arg2, trustLevel, pick).err,
                panic |-> CurvePointFrom(fn, arg1, arg2, trustLevel, pick).panic]
    /\ UNCHANGED <<pointvars, heap, last, reader, writer, buf, io>>

\* the points of each type a caller can compare with
OtherPoints(otherType) ==
    CASE otherType = "Point_xtw_subgroup" -> {q \in InputPoints : q.sub}
      [] otherType = "Point_xtw_full" -> {q \in InputPoints : ~q.sub}
      [] otherType = "Point_axtw_subgroup" ->
            {Axtw(q[1], q[2], FeMul(q[1], q[2])) : q \in DecafPoints} \cup {NaP_axtw}
      [] otherType = "Point_axtw_full" ->
            {Axtw(q[1], q[2], FeMul(q[1], q[2])) : q \in CurvePoints} \cup {NaP_axtw}

CallIsEqual(p, other, otherType) ==
    /\ call' = [fn |-> "IsEqual", p |-> p, other |-> other, otherType |-> otherType,
                result |-> IsEqual(p, other, otherType)]
    /\ UNCHANGED <<pointvars, heap, last, reader, writer, buf, io>>

CallIsNeutralElement(p) ==
    /\ call' = [fn |-> "IsNeutralElement", p |-> p, result |-> IsNeutralElement(p)]
    /\ UNCHANGED <<pointvars, heap, last, reader, writer, buf, io>>

InitFunctions ==
    /\ PointIdle
    /\ heap = <<>>
    /\ last = NoCall
    /\ call = NoCall
    /\ reader = <<>>
    /\ writer = <<>>
    /\ buf = <<>>
    /\ io = NoCall

\* one call is made from the state in which none has been made
NextFunctions ==
    \/ call = NoCall /\ \E x \in Fp, legendreCheckX \in BOOLEAN, pick \in RootChoices :
            CallRecoverYFromXAffine(x, legendreCheckX, pick)
    \/ call = NoCall /\ \E y \in Fp, pick \in RootChoices : CallRecoverXFromYAffine(y, pick)
    \/ call = NoCall /\ \E input \in InputPoints : CallMapToFieldElement(input)
    \/ call = NoCall /\ \E fn \in Constructors, arg1 \in Fp, trustLevel \in TrustLevels,
                           pick \in RootChoices :
            \E arg2 \in SecondArguments(fn) : CallCurvePointFrom(fn, arg1, arg2, trustLevel, pick)
    \/ call = NoCall /\ \E p \in OtherPoints("Point_xtw_subgroup"), otherType \in PointTypes :
            \E other \in OtherPoints(otherType) : CallIsEqual(p, other, otherType)
    \/ call = NoCall /\ \E p \in InputPoints : CallIsNeutralElement(p)

SpecFunctions == InitFunctions /\ [][NextFunctions]_vars

IsSquare(v) == Jacobi(v) > 0

\* C14: recoverYFromXAffine(x, legendreCheckX), with num = 1 + 5x^2 and
\* den = 1 - d*x^2, both non-zero.  Without the Legendre check the error is
\* nil iff num/den is a square and ErrXNotOnCurve otherwise.  With it the error
\* is nil iff num and num/den are squares, ErrXNotInSubgroup iff num is not a
\* square and num/den is, and ErrXNotOnCurve iff num/den is not a square.  When
\* the error is nil or ErrXNotInSubgroup the returned y satisfies the curve
\* equation with x.
C14_RecoverYTaxonomy ==
    call.fn = "recoverYFromXAffine" =>
        LET xx  == FeSquare(call.x)
            num == FeAdd(fieldElementOne, FeMul(5, xx))
            den == FeSub(fieldElementOne, FeMul(CurveParameterD_fe, xx))
            quo == FeDivide(num, den)
        IN /\ num # 0 /\ den # 0
           /\ ~call.legendreCheckX =>
                /\ call.err = nil <=> IsSquare(quo)
                /\ call.err # nil => call.err = "ErrXNotOnCurve"
           /\ call.legendreCheckX =>
                /\ call.err = nil <=> IsSquare(num) /\ IsSquare(quo)
                /\ call.err = "ErrXNotInSubgroup" <=> ~IsSquare(num) /\ IsSquare(quo)
                /\ call.err = "ErrXNotOnCurve" <=> ~IsSquare(quo)
           /\ call.err \in {nil, "ErrXNotInSubgroup"} =>
                FeAdd(FeMul(CurveParameterA_fe, xx), FeSquare(call.val))
                    = FeAdd(fieldElementOne,
                            FeMul(CurveParameterD_fe, FeMul(xx, FeSquare(call.val))))

\* a checked call that found x on the curve and outside the subgroup
C14_Witness ==
    /\ call.fn = "recoverYFromXAffine"
    /\ call.legendreCheckX
    /\ call.err = "ErrXNotInSubgroup"
    /\ call.val # 0

\* C15: recoverXFromYAffine(y).  For the y of any finite point of the curve
\* the error is nil and the returned x is the x of that point or its
\* negative (0 for y = 1).  For y with d*y^2 = a, for y = 0 and for y whose
\* (y^2 - 1)/(d*y^2 - a) is not a square the error is ErrYNotOnCurve and the
\* returned x is 0.  There is no other error.
C15_RecoverXTaxonomy ==
    call.fn = "recoverXFromYAffine" =>
        LET y   == call.x
            yy  == FeSquare(y)
            num == FeSub(yy, fieldElementOne)
            den == FeSub(FeMul(CurveParameterD_fe, yy), CurveParameterA_fe)
        IN /\ \A q \in CurvePoints :
                q[2] = y => /\ call.err = nil
                            /\ call.val \in {q[1], FeNeg(q[1])}
                            /\ (y = fieldElementOne => call.val = 0)
           /\ (den = 0 \/ y = 0 \/ Jacobi(FeDivide(num, den)) < 0) =>
                /\ call.err = "ErrYNotOnCurve"
                /\ call.val = 0
           /\ call.err \in {nil, "ErrYNotOnCurve"}

\* a call with the y of the points at infinity, d*y^2 = a
C15_Witness ==
    /\ call.fn = "recoverXFromYAffine"
    /\ FeMul(CurveParameterD_fe, FeSquare(call.x)) = CurveParameterA_fe
    /\ call.err = "ErrYNotOnCurve"

NeutralElement == <<0, fieldElementOne, 0>>
AffineOrderTwoPoint == <<0, FieldElementMinusOne, 0>>

\* C16: MapToFieldElement panics for NaPs and for the points at infinity and
\* for no other point; where it returns, the value is 0 exactly for the
\* neutral element N and the affine point A of order two, and the value for
\* P + A is the value for P.
C16_MapToFieldElement ==
    call.fn = "MapToFieldElement" =>
        /\ call.panic <=> (IsNaP(call.point) \/ call.point.z = 0)
        /\ ~call.panic =>
              /\ call.val = 0 <=> Denote(call.point) \in {NeutralElement, AffineOrderTwoPoint}
              /\ ~MapToFieldElement(flipDecaf(call.point)).panic
              /\ MapToFieldElement(flipDecaf(call.point)).val = call.val

\* the call for A, held with z # 1, returned 0
C16_Witness ==
    /\ call.fn = "MapToFieldElement"
    /\ ~call.panic
    /\ call.val = 0
    /\ ~call.point.sub
    /\ call.point.z # fieldElementOne
    /\ Denote(call.point) = AffineOrderTwoPoint

InPrimeOrderSubgroup(d) == Len(d) = 3 /\ <<d[1], d[2]>> \in SubgroupPoints

\* the points a caller can hold that MapToFieldElement maps to val
Preimage(val) ==
    {Q \in InputPoints : ~MapToFieldElement(Q).panic /\ MapToFieldElement(Q).val = val}

\* C17: the points with the value of P are exactly P and P + A, so that two
\* points of the prime-order subgroup with the same value are equal.
C17_InjectiveModuloA ==
    (call.fn = "MapToFieldElement" /\ ~call.panic) =>
        /\ {Denote(Q) : Q \in Preimage(call.val)}
              = {Denote(call.point), PlusA(Denote(call.point))}
        /\ \A Q \in Preimage(call.val) :
              (InPrimeOrderSubgroup(Denote(Q)) /\ InPrimeOrderSubgroup(Denote(call.point)))
                  => Denote(Q) = Denote(call.point)

\* the call for a subgroup point other than N, held as a subgroup point in
\* the representative P + A
C17_Witness ==
    /\ call.fn = "MapToFieldElement"
    /\ ~call.panic
    /\ call.val # 0
    /\ call.point.sub
    /\ InPrimeOrderSubgroup(Denote(call.point))
    /\ ~InPrimeOrderSubgroup(<<FeDivide(call.point.x, call.point.z),
                               FeDivide(call.point.y, call.point.z), 0>>)

\* ---------------------------------------------------------------------------
\* consumeExpectRead and writeFull
\* ---------------------------------------------------------------------------

MaxBuffer == 2
MaxStream == 3

ByteValues == {0, 1}
ByteStrings(n) == UNION {[1 .. k -> ByteValues] : k \in 0 .. n}

\* A []byte: its contents, or a view of the caller's backing array, whose
\* contents are those the caller's buffer has now.
Slice(bytes) == [alias |-> FALSE, bytes |-> bytes]
SliceOf(sl) == IF sl.alias THEN buf ELSE sl.bytes

\* the slice itself rather than a copy
copyByteSlice_SameArray(v) == [alias |-> TRUE, bytes |-> v]
copyByteSlice(v) == Slice(v)

\* An io.Reader holds the bytes it will still deliver and the error it
\* reports once they are used up; calls counts the calls that read from it.
Reader(data, fail) == [data |-> data, fail |-> fail, calls |-> 0]
ReaderErrors == {"EOF", "ErrUnexpectedEOF", "ErrIO"}

\* io.ReadFull(input, buf) for a buffer of l bytes
ReadFull(input, l) ==
    IF Len(input.data) >= l
    THEN [n |-> l, err |-> nil, read |-> SubSeq(input.data, 1, l),
          input |-> [input EXCEPT !.data = SubSeq(@, l + 1, Len(@)), !.calls = @ + 1]]
    ELSE [n |-> Len(input.data),
          err |-> IF input.fail = "EOF" /\ Len(input.data) > 0
                  THEN "ErrUnexpectedEOF" ELSE input.fail,
          read |-> input.data,
          input |-> [input EXCEPT !.data = <<>>, !.calls = @ + 1]]

headerRead(PartialRead, ActuallyRead, ExpectedToRead, BytesRead) ==
    [PartialRead |-> PartialRead, ActuallyRead |-> ActuallyRead,
     ExpectedToRead |-> ExpectedToRead, BytesRead |-> BytesRead]

NoHeaderRead == headerRead(FALSE, Slice(<<>>), Slice(<<>>), 0)

\* the result is [bytes_read, err, data, input]; err is the error the
\* returned error wraps, data the headerRead it contains
consumeExpectRead(input, expectToRead) ==
    LET l == Len(expectToRead)
        r == ReadFull(input, l)
    IN IF l = 0
       THEN [bytes_read |-> 0, err |-> nil, data |-> NoHeaderRead, input |-> input]
       ELSE IF r.err # nil
       THEN IF r.err = "ErrUnexpectedEOF"
            THEN [bytes_read |-> r.n, err |-> r.err,
                  data |-> headerRead(TRUE, Slice(r.read), copyByteSlice(expectToRead), r.n),
                  input |-> r.input]
            ELSE IF r.err = "EOF"
            THEN [bytes_read |-> r.n, err |-> r.err,
                  data |-> headerRead(FALSE, Slice(<<>>), copyByteSlice(expectToRead), r.n),
                  input |-> r.input]
            ELSE [bytes_read |-> r.n, err |-> r.err,
                  data |-> headerRead(r.n > 0, Slice(r.read), copyByteSlice(expectToRead), r.n),
                  input |-> r.input]
       ELSE IF expectToRead # r.read
       THEN [bytes_read |-> r.n, err |-> "ErrDidNotReadExpectedString",
             data |-> headerRead(FALSE, Slice(r.read), copyByteSlice(expectToRead), r.n),
             input |-> r.input]
       ELSE [bytes_read |-> r.n, err |-> nil, data |-> NoHeaderRead, input |-> r.input]

\* An io.Writer takes up to accepts bytes of a Write and reports fail;
\* written is what it has taken, calls the number of Writes.
Writer(accepts, fail) == [accepts |-> accepts, fail |-> fail, written |-> <<>>, calls |-> 0]

\* output.Write(data)
Write(output, data) ==
    LET k == IF output.accepts < Len(data) THEN output.accepts ELSE Len(data)
    IN [n |-> k, err |-> output.fail,
        output |-> [output EXCEPT !.written = @ \o SubSeq(data, 1, k), !.calls = @ + 1]]

WriteErrorData(PartialWrite, Data, BytesWritten) ==
    [PartialWrite |-> PartialWrite, Data |-> Data, BytesWritten |-> BytesWritten]

NoWriteErrorData == WriteErrorData(FALSE, Slice(<<>>), 0)

\* a write counts as partial whenever it is short
writeFull_ShortIsPartial(output, data) ==
    LET w == Write(output, data)
    IN IF w.err # nil
       THEN [bytesWritten |-> w.n, err |-> w.err,
             data |-> WriteErrorData(w.n < Len(data), copyByteSlice(data), w.n),
             output |-> w.output]
       ELSE [bytesWritten |-> w.n, err |-> nil, data |-> NoWriteErrorData,
             output |-> w.output]

\* the result is [bytesWritten, err, data, output]
writeFull(output, data) ==
    LET w == Write(output, data)
    IN IF w.err # nil
       THEN [bytesWritten |-> w.n, err |-> w.err,
             data |-> WriteErrorData(w.n # 0 /\ w.n < Len(data), copyByteSlice(data), w.n),
             output |-> w.output]
       ELSE [bytesWritten |-> w.n, err |-> nil, data |-> NoWriteErrorData,
             output |-> w.output]

\* what a call was given and what it returned; each helper is called once
Returned(fn, r, n, before) ==
    [fn |-> fn, n |-> n, err |-> r.err, data |-> r.data, arg |-> buf, before |-> before]

CallConsumeExpectRead ==
    /\ reader.calls = 0
    /\ reader' = consumeExpectRead(reader, buf).input
    /\ io' = Returned("consumeExpectRead", consumeExpectRead(reader, buf),
                      consumeExpectRead(reader, buf).bytes_read, reader)
    /\ UNCHANGED <<pointvars, heap, last, call, writer, buf>>

CallWriteFull ==
    /\ writer.calls = 0
    /\ writer' = writeFull(writer, buf).output
    /\ io' = Returned("writeFull", writeFull(writer, buf),
                      writeFull(writer, buf).bytesWritten, writer)
    /\ UNCHANGED <<pointvars, heap, last, call, reader, buf>>

\* after a call the caller puts other bytes into its buffer
Overwrite(bytes) ==
    /\ io.fn # "none"
    /\ io.arg = buf
    /\ bytes # buf
    /\ buf' = bytes
    /\ UNCHANGED <<pointvars, heap, last, call, reader, writer, io>>

InitStreams ==
    /\ PointIdle
    /\ heap = <<>>
    /\ last = NoCall
    /\ call = NoCall
    /\ reader \in {Reader(data, fail) : data \in ByteStrings(MaxStream), fail \in ReaderErrors}
    /\ writer \in {Writer(accepts, fail) : accepts \in 0 .. MaxBuffer, fail \in {nil, "ErrIO"}}
    /\ buf \in ByteStrings(MaxBuffer)
    /\ io = NoCall

NextStreams ==
    \/ CallConsumeExpectRead
    \/ CallWriteFull
    \/ \E bytes \in [1 .. Len(buf) -> ByteValues] : Overwrite(bytes)

SpecStreams == InitStreams /\ [][NextStreams]_vars

\* C18: consumeExpectRead with an expected buffer of length n.  For n > 0: a
\* reader at EOF before any byte gives an error wrapping io.EOF with
\* BytesRead = 0, PartialRead = false and an empty ActuallyRead; EOF after k
\* bytes, 0 < k < n, gives an error wrapping io.ErrUnexpectedEOF with
\* PartialRead = true, BytesRead = k and ActuallyRead the k bytes read; for
\* any other I/O error PartialRead is true iff BytesRead > 0.  For n = 0 the
\* call returns (0, nil) and the reader is not touched.
C18_EOFTaxonomy ==
    io.fn = "consumeExpectRead" =>
        LET n == Len(io.arg)
            k == Len(io.before.data)
        IN /\ (n > 0 /\ k = 0 /\ io.before.fail = "EOF") =>
                /\ io.err = "EOF"
                /\ io.n = 0
                /\ io.data.BytesRead = 0
                /\ ~io.data.PartialRead
                /\ SliceOf(io.data.ActuallyRead) = <<>>
           /\ (n > 0 /\ 0 < k /\ k < n /\ io.before.fail = "EOF") =>
                /\ io.err = "ErrUnexpectedEOF"
                /\ io.n = k
                /\ io.data.BytesRead = k
                /\ io.data.PartialRead
                /\ SliceOf(io.data.ActuallyRead) = io.before.data
           /\ (n > 0 /\ k < n /\ io.before.fail # "EOF") =>
                /\ io.err = io.before.fail
                /\ io.data.PartialRead <=> io.data.BytesRead > 0
           /\ n = 0 =>
                /\ io.n = 0
                /\ io.err = nil
                /\ reader = io.before

\* C19: consumeExpectRead consumes len(expectToRead) bytes even when an early
\* byte differs: when the reader has that many bytes the stream advances by
\* exactly len(expectToRead), match or not.  On a mismatch after the full
\* read the error is ErrDidNotReadExpectedString with PartialRead = false,
\* BytesRead = len(expectToRead), ActuallyRead the bytes read and
\* ExpectedToRead a copy of the expected bytes, which a later change of the
\* caller's buffer does not reach.  On a match the error is nil.
C19_FullReadOnMismatch ==
    (/\ io.fn = "consumeExpectRead"
     /\ Len(io.before.data) >= Len(io.arg)) =>
        LET n    == Len(io.arg)
            read == SubSeq(io.before.data, 1, n)
        IN /\ io.n = n
           /\ reader.data = SubSeq(io.before.data, n + 1, Len(io.before.data))
           /\ read # io.arg =>
                /\ io.err = "ErrDidNotReadExpectedString"
                /\ ~io.data.PartialRead
                /\ io.data.BytesRead = n
                /\ SliceOf(io.data.ActuallyRead) = read
                /\ SliceOf(io.data.ExpectedToRead) = io.arg
           /\ read = io.arg => io.err = nil

\* the first byte already differed, both bytes were consumed, and the caller
\* has since put other bytes into its buffer
C19_Witness ==
    /\ io.fn = "consumeExpectRead"
    /\ Len(io.arg) = MaxBuffer
    /\ Len(io.before.data) > MaxBuffer
    /\ io.before.data[1] # io.arg[1]
    /\ io.err = "ErrDidNotReadExpectedString"
    /\ Len(reader.data) = Len(io.before.data) - MaxBuffer
    /\ buf # io.arg

\* C20: writeFull makes one Write of data and returns the count the writer
\* returned.  When the writer reports an error the returned error carries
\* BytesWritten equal to that count, PartialWrite true iff
\* 0 < bytesWritten < len(data), and Data equal to a copy of data that a later
\* change of the caller's buffer does not reach.  When the writer reports no
\* error the returned error is nil.
C20_WriteAccounting ==
    io.fn = "writeFull" =>
        LET count == IF io.before.accepts < Len(io.arg) THEN io.before.accepts
                                                         ELSE Len(io.arg)
        IN /\ writer.calls = io.before.calls + 1
           /\ writer.written = io.before.written \o SubSeq(io.arg, 1, count)
           /\ io.n = count
           /\ io.before.fail # nil =>
                /\ io.err = io.before.fail
                /\ io.data.BytesWritten = count
                /\ io.data.PartialWrite <=> (0 < count /\ count < Len(io.arg))
                /\ SliceOf(io.data.Data) = io.arg
           /\ io.before.fail = nil => io.err = nil

\* the writer took nothing and reported an error, and the caller has since
\* put other bytes into its buffer
C20_Witness ==
    /\ io.fn = "writeFull"
    /\ io.err # nil
    /\ Len(io.arg) > 0
    /\ io.n = 0
    /\ ~io.data.PartialWrite
    /\ buf # io.arg

\* 1 - a*x^2 - y^2 + d*(x*y)^2
CurveEquation(x, y) ==
    FeAdd(FeSub(FeSub(fieldElementOne, FeMul(CurveParameterA_fe, FeSquare(x))), FeSquare(y)),
          FeMul(CurveParameterD_fe, FeSquare(FeMul(x, y))))

\* C21: CurvePointFromXYTimesSignY_subgroup with UntrustedInput: when the
\* second input has sign <= 0 the error is ErrWrongSignY; otherwise, when
\* (x, y) does not satisfy 1 - a*x^2 - y^2 + d*(x*y)^2 = 0, it is
\* ErrNotOnCurve, also when Jacobi(1 - a*x^2) = -1; it is ErrNotInSubgroup
\* only when the pair is on the curve and Jacobi(1 - a*x^2) = -1; otherwise
\* the point (x, y, x*y) is returned with nil error.
C21_ErrorPrecedence ==
    (call.fn = "CurvePointFromXYTimesSignY_subgroup" /\ call.trustLevel = UntrustedInput) =>
        LET x == call.arg1
            y == call.arg2
            j == Jacobi(FeSub(fieldElementOne, FeMul(CurveParameterA_fe, FeSquare(x))))
        IN /\ ~call.panic
           /\ Sign(y) <= 0 => call.err = "ErrWrongSignY"
           /\ (Sign(y) > 0 /\ CurveEquation(x, y) # 0) => call.err = "ErrNotOnCurve"
           /\ call.err = "ErrNotInSubgroup" <=>
                 (Sign(y) > 0 /\ CurveEquation(x, y) = 0 /\ j = -1)
           /\ (Sign(y) > 0 /\ CurveEquation(x, y) = 0 /\ j # -1) =>
                 /\ call.err = nil
                 /\ call.point = Axtw(x, y, FeMul(x, y))

\* a pair that is off the curve and whose x fails the subgroup test as well
C21_Witness ==
    /\ call.fn = "CurvePointFromXYTimesSignY_subgroup"
    /\ call.trustLevel = UntrustedInput
    /\ Sign(call.arg2) > 0
    /\ CurveEquation(call.arg1, call.arg2) # 0
    /\ Jacobi(FeSub(fieldElementOne, FeMul(CurveParameterA_fe, FeSquare(call.arg1)))) = -1
    /\ call.err = "ErrNotOnCurve"

\* The deployed encoders and their byte order
DefaultEndian == LittleEndian
basicBanderwagonShort(e) == Serializer(KindXTimesSignY, e, TRUE, bitHeaderBanderwagonX, NoHeader)
basicBanderwagonLong(e) ==
    Serializer(KindYXTimesSignY, e, TRUE, bitHeaderBanderwagonY, bitHeaderBanderwagonX)

\* the long encodings DeserializeCurvePoint accepts with UntrustedInput
AcceptedLongIn(e) ==
    UNION {IF Succeeded(DeserializeCurvePoint(basicBanderwagonLong(e),
                                              Framed(basicBanderwagonLong(e), v1, v2, FALSE),
                                              UntrustedInput, Xtw(TRUE, 0, 0, 0, 0), 0))
           THEN {Framed(basicBanderwagonLong(e), v1, v2, FALSE)}
           ELSE {} : v1 \in Fp, v2 \in Fp}
AcceptedLongLittleEndian == AcceptedLongIn(LittleEndian)
AcceptedLongBigEndian == AcceptedLongIn(BigEndian)
AcceptedLong(e) == IF e = LittleEndian THEN AcceptedLongLittleEndian ELSE AcceptedLongBigEndian

\* the byte of the first word that holds its header bits: the first byte on
\* the wire in big-endian order, the last byte of the word in little-endian
HeaderByte(w, e) == OnWire(FirstWord(w), e)[1]

AcceptedShort ==
    /\ IsBanderwagonShort(s)
    /\ UntrustedInput \in done
    /\ Succeeded(rd[UntrustedInput])

\* C22 as stated: with the deployed headers and the little-endian byte order
\* no accepted short encoding begins with the first byte of an accepted long
\* encoding.
C22_FirstByteDecides ==
    (AcceptedShort /\ s.endianness = DefaultEndian) =>
        \A w \in AcceptedLong(DefaultEndian) : wire[1] # w[1]

\* C22, amended: with the deployed headers, in either byte order, no accepted
\* short encoding and accepted long encoding agree in the byte that holds the
\* header bits of the first word; that byte is the first byte on the wire in
\* big-endian order only, and the 32nd in the deployed little-endian order.
C22_HeaderByteDecides ==
    AcceptedShort =>
        /\ \A w \in AcceptedLong(s.endianness) :
              HeaderByte(wire, s.endianness) # HeaderByte(w, s.endianness)
        /\ s.endianness = BigEndian => \A w \in AcceptedLong(BigEndian) : wire[1] # w[1]
        /\ HeaderByte(wire, s.endianness)
              = IF s.endianness = BigEndian THEN wire[1] ELSE wire[FeLen]

\* an accepted little-endian short encoding that begins like an accepted long
\* one and differs from it in the 32nd byte
C22_Witness ==
    /\ AcceptedShort
    /\ s.endianness = DefaultEndian
    /\ \E w \in AcceptedLong(DefaultEndian) : wire[1] = w[1] /\ wire[FeLen] # w[FeLen]

\* C23: with UntrustedInput, CurvePointFromXAndSignY_full and _subgroup
\* called with signY outside {-1, +1} (0 included), and
\* CurvePointFromYAndSignX_full and _subgroup called with signX outside
\* {-1, 0, +1}, return ErrInvalidSign for every x or y, whether or not a
\* coordinate could be recovered from it and whichever root would be taken.
C23_InvalidSign ==
    (/\ call.fn \in ConstructorsSign
     /\ call.trustLevel = UntrustedInput
     /\ IF call.fn \in {"CurvePointFromXAndSignY_full", "CurvePointFromXAndSignY_subgroup"}
        THEN call.arg2 \notin {-1, 1}
        ELSE call.arg2 \notin {-1, 0, 1}) =>
        /\ call.err = "ErrInvalidSign"
        /\ ~call.panic
        /\ \A pick \in RootChoices :
              CurvePointFrom(call.fn, call.arg1, call.arg2, call.trustLevel, pick).err
                  = "ErrInvalidSign"

\* signX = 2 with a y from which no x can be recovered
C23_Witness ==
    /\ call.fn = "CurvePointFromYAndSignX_subgroup"
    /\ call.trustLevel = UntrustedInput
    /\ call.arg2 = 2
    /\ recoverXFromYAffine(call.arg1, 0).err # nil
    /\ call.err = "ErrInvalidSign"

ZeroSignRuleFull ==
    call.fn = "CurvePointFromYAndSignX_full" =>
        /\ call.arg2 = 0 =>
              /\ call.arg1 = fieldElementOne =>
                    call.err = nil /\ call.point = NeutralElement_axtw_full
              /\ call.arg1 = FieldElementMinusOne =>
                    call.err = nil /\ call.point = AffineOrderTwoPoint_axtw
              /\ call.arg1 \notin {fieldElementOne, FieldElementMinusOne} =>
                    call.err = "ErrInvalidZeroSignX"
        /\ (call.arg1 \in {fieldElementOne, FieldElementMinusOne} /\ call.arg2 \in {-1, 0, 1}) =>
              /\ call.err = nil
              /\ ~call.panic
              /\ call.point = Axtw(0, call.arg1, 0)

ZeroSignRuleSubgroup ==
    call.fn = "CurvePointFromYAndSignX_subgroup" =>
        /\ call.arg2 = 0 =>
              /\ call.err = nil <=> call.arg1 = fieldElementOne
              /\ call.arg1 = FieldElementMinusOne => call.err = "ErrNotInSubgroup"
        /\ (call.arg1 = fieldElementOne /\ call.arg2 \in {-1, 0, 1}) =>
              /\ call.err = nil
              /\ ~call.panic
              /\ call.point = NeutralElement_axtw_full

DenoteAs(q, type) ==
    CASE type \in {"Point_xtw_subgroup", "Point_xtw_full"} -> Denote(q)
      [] type = "Point_axtw_subgroup" ->
            IF IsNaP(q) THEN <<"NaP">>
            ELSE <<normalizeSubgroup_axtw(q).x, normalizeSubgroup_axtw(q).y, q.t>>
      [] type = "Point_axtw_full" -> IF IsNaP(q) THEN <<"NaP">> ELSE <<q.x, q.y, q.t>>

RecoveringConstructors == ConstructorsSign \cup ConstructorsX

\* C27: the point and the error returned by CurvePointFromXAndSignY_*,
\* CurvePointFromYAndSignX_* and CurvePointFromXTimesSignY_subgroup are the
\* same for both choices of the square root.
C27_RootIndependence ==
    call.fn \in RecoveringConstructors =>
        \A pick \in RootChoices :
            LET r == CurvePointFrom(call.fn, call.arg1, call.arg2, call.trustLevel, pick)
            IN /\ r.point = call.point
               /\ r.err = call.err
               /\ r.panic = call.panic

\* a point was constructed from an x for which the two roots differ
C27_Witness ==
    /\ call.fn = "CurvePointFromXTimesSignY_subgroup"
    /\ call.err = nil
    /\ ~call.panic
    /\ recoverYFromXAffine(call.arg1, TRUE, 0).y # recoverYFromXAffine(call.arg1, TRUE, 1).y
    /\ call.point.y # 0

\* the field elements were read and UntrustedInput rejected the point
ValidationFailed ==
    /\ UntrustedInput \in done
    /\ ~rd[UntrustedInput].panic
    /\ rd[UntrustedInput].err # nil
    /\ rd[UntrustedInput].err \notin FramingErrors

\* C28: when the field elements were read and the conversion to a curve
\* point fails, DeserializeCurvePoint with UntrustedInput returns bytesRead =
\* OutputLength() and an error whose data has BytesRead = OutputLength() and
\* PartialRead = false, and the stream has advanced by exactly OutputLength()
\* bytes.
C28_ValidationAccounting ==
    ValidationFailed =>
        /\ rd[UntrustedInput].bytesRead = OutputLength(s)
        /\ rd[UntrustedInput].errData = ErrorData(FALSE, OutputLength(s))
        /\ Len(wire) >= OutputLength(s)
        /\ rd[UntrustedInput].rest = SubSeq(wire, OutputLength(s) + 1, Len(wire))

\* a rejected encoding was followed by more bytes, which are still unread
C28_Witness ==
    /\ ValidationFailed
    /\ rd[UntrustedInput].err = "ErrNotInSubgroup"
    /\ Len(rd[UntrustedInput].rest) > 0
    /\ rd[UntrustedInput].bytesRead = OutputLength(s)

\* the stored point has affine coordinates on the curve, with t = x y
OnCurve(p) ==
    /\ Len(Denote(p)) = 3
    /\ isPointOnCurve_axtw(Axtw(Denote(p)[1], Denote(p)[2], Denote(p)[3]))

\* C29: whenever DeserializeCurvePoint with UntrustedInput returns a nil
\* error, the stored point is not a NaP, satisfies a x^2 + y^2 = 1 + d x^2 y^2
\* with t = x y and, if the scheme is subgroup-only or the output point can
\* only represent subgroup points, lies in the prime-order subgroup (modulo A
\* for subgroup point types).
C29_AcceptedPointsValid ==
    (UntrustedInput \in done /\ Succeeded(rd[UntrustedInput])) =>
        LET p == rd[UntrustedInput].point
        IN /\ ~IsNaP(p)
           /\ OnCurve(p)
           /\ (IsSubgroupOnly(s) \/ CanOnlyRepresentSubgroup(p)) =>
                 IsInSubgroup_axtw_full(Axtw(Denote(p)[1], Denote(p)[2], Denote(p)[3]))

\* C30: SerializeCurvePoint may rewrite the coordinates of the point it is
\* given, but after the call, whether it succeeded or refused, the point
\* denotes the same curve point as before (the same element modulo A for
\* subgroup types), and serializing it again writes identical bytes.
C30_SerializeKeepsPoint ==
    origin = "written" =>
        /\ ~wr.panic
        /\ Denote(wr.point) = Denote(given)
        /\ wr.point.sub = given.sub
        /\ SerializeCurvePoint(s, wr.point).out = wr.out
        /\ SerializeCurvePoint(s, wr.point).err = wr.err
        /\ ~SerializeCurvePoint(s, wr.point).panic

\* a subgroup point held as P + A at z = 2 was serialized and rewritten
C30_Witness ==
    /\ origin = "written"
    /\ Succeeded(wr)
    /\ given.sub
    /\ given.z = 2
    /\ ~legendreCheckE1_projectiveYZ(given.y, given.z)
    /\ s.kind = KindXY
    /\ wr.point # given
    /\ wr.point.z = fieldElementOne

====
